---------------------------- MODULE Spec2Model ----------------------------
(***************************************************************************)
(* A model of the video downloader of src/main.py: the source classifier, *)
(* the file name sanitizer, the Facebook URL fixup and the download        *)
(* orchestrator with its journal.  Strings of the program are TLA+ strings *)
(* and are taken apart with Len, SubSeq and \o, character by character.    *)
(***************************************************************************)
EXTENDS Integers, Sequences, FiniteSets, TLC

VARIABLES
    pc,         \* position of the operation under way
    url,        \* the url argument / config.url
    filename,   \* the filename argument of sanitize_filename
    max_length, \* the max_length argument of sanitize_filename
    ret,        \* the value returned by the function applied
    ret2,       \* the value returned by a second application to ret
    journal,    \* the rows of self.log_file, NoFile while the file does not exist
    config,     \* the DownloadConfig of the request under way
    ydl_opts,   \* the local ydl_opts of download_video
    info_dict,  \* the metadata the probe returned
    idx,        \* the loop variable i of _download_playlist
    success_count, \* the local success_count of _download_playlist
    success,    \* main's success: the value download_video returned
    probes,     \* history: extract_info calls of this request, in order
    downloads,  \* history: ydl.download calls of this request, in order
    raised,     \* the exception e the primary probe raised, bound while its handler
                 \* runs; kept as history when it ended the request
    outcome,    \* history: how the request ended
    start_len,  \* history: rows in the journal when the request started
    log_failures, \* history: journal writes of this request that failed
    unresolved,  \* history: playlist entries whose download raised or whose file was not located
    requested,  \* history: config.url as main passed it to download_video
    ydl_opts_fallback, \* the local ydl_opts_fallback of download_video
    errors,     \* history: the stages of this request at which the wrapped library raised
    printed,    \* the final message main printed
    config_file, \* what open() and yaml.safe_load give for config.yaml
    yaml,       \* the module-level yaml: FALSE when the import of PyYAML failed
    directory,  \* the files under self.download_dir
    call,       \* the arguments of the call of _find_downloaded_file
    case_sensitive \* whether the platform matches file names with their letter case

pureVars == <<url, filename, max_length, ret, ret2>>

dlVars == <<journal, config, ydl_opts, info_dict, idx, success_count, success,
            probes, downloads, raised, outcome, start_len, log_failures, unresolved,
            requested, ydl_opts_fallback, errors, printed>>

\* the variables most steps of a request leave alone
callVars == <<requested, ydl_opts_fallback, errors, printed>>

vars == <<pc, url, filename, max_length, ret, ret2, journal, config, ydl_opts,
          info_dict, idx, success_count, success, probes, downloads, raised,
          outcome, start_len, log_failures, unresolved, requested,
          ydl_opts_fallback, errors, printed, config_file, yaml, directory, call,
          case_sensitive>>

\* the settings file, the yaml module and the download directory
envVars == <<config_file, yaml, directory, call, case_sensitive>>

\* Python's None where a string is expected
None == "<None>"

\* Python's None where a dict is expected
Null == [null |-> TRUE]

\* the journal while self.log_file does not exist
NoFile == <<>>

\* the orchestrator's variables while a pure function is exercised
DlIdle ==
    /\ journal = NoFile
    /\ config = Null
    /\ ydl_opts = Null
    /\ info_dict = Null
    /\ idx = 0
    /\ success_count = 0
    /\ success = None
    /\ probes = <<>>
    /\ downloads = <<>>
    /\ raised = Null
    /\ outcome = None
    /\ start_len = 0
    /\ log_failures = 0
    /\ unresolved = 0
    /\ requested = None
    /\ ydl_opts_fallback = Null
    /\ errors = {}
    /\ printed = None

\* the settings file and the download directory while they are not looked at
EnvIdle ==
    /\ config_file = Null
    /\ yaml = TRUE
    /\ directory = {}
    /\ call = Null
    /\ case_sensitive = TRUE

\* the pure functions' variables while the orchestrator runs
PureIdle ==
    /\ url = None
    /\ filename = None
    /\ max_length = 0
    /\ ret = None
    /\ ret2 = None


(***************************************************************************)
(* String helpers: Python's str operations used by the code.               *)
(***************************************************************************)
Ch(s, i) == SubSeq(s, i, i)

Min(a, b) == IF a <= b THEN a ELSE b

\* s.startswith(sub, i - 1): sub stands in s at the position i
StartsAt(s, sub, i) ==
    i + Len(sub) - 1 <= Len(s) /\ SubSeq(s, i, i + Len(sub) - 1) = sub

\* sub in s
Contains(s, sub) ==
    \E i \in 1..(Len(s) - Len(sub) + 1) : SubSeq(s, i, i + Len(sub) - 1) = sub

UpperChars == <<"A","B","C","D","E","F","G","H","I","J","K","L","M",
                "N","O","P","Q","R","S","T","U","V","W","X","Y","Z">>

LowerChars == <<"a","b","c","d","e","f","g","h","i","j","k","l","m",
                "n","o","p","q","r","s","t","u","v","w","x","y","z">>

LowerChar(c) ==
    IF \E k \in 1..26 : UpperChars[k] = c
    THEN LowerChars[CHOOSE k \in 1..26 : UpperChars[k] = c]
    ELSE c

RECURSIVE lower(_)
\* str.lower()
lower(s) == IF s = "" THEN "" ELSE LowerChar(Ch(s, 1)) \o lower(Tail(s))

Digits == {"0","1","2","3","4","5","6","7","8","9"}

IsDigit(c) == c \in Digits

\* \w of the re module: letters, digits and the underscore
IsWord(c) ==
    \/ c \in Digits
    \/ c = "_"
    \/ \E k \in 1..26 : UpperChars[k] = c \/ LowerChars[k] = c

\* \s of the re module, and the characters str.strip() and str.split() drop
IsSpace(c) == c \in {" ", "\t", "\n", "\r"}

(***************************************************************************)
(* VideoSource and get_video_source                                        *)
(***************************************************************************)
\* class VideoSource(Enum); OTHER_ is VideoSource.OTHER (OTHER is a reserved
\* word of TLA+), its value the Russian word for "other"
VideoSource ==
    [YOUTUBE |-> "YouTube",
     TIKTOK |-> "TikTok",
     FACEBOOK |-> "Facebook",
     INSTAGRAM |-> "Instagram",
     TWITTER |-> "Twitter/X",
     VK |-> "VK",
     TWITCH |-> "Twitch",
     REDDIT |-> "Reddit",
     SOUNDCLOUD |-> "SoundCloud",
     BANDCAMP |-> "Bandcamp",
     VIMEO |-> "Vimeo",
     DAILYMOTION |-> "Dailymotion",
     SPOTIFY |-> "Spotify",
     OTHER_ |-> "Other"]

source_mapping == <<
    [domains |-> <<"youtube.com", "youtu.be", "youtube-nocookie.com">>, source |-> VideoSource.YOUTUBE],
    [domains |-> <<"tiktok.com">>, source |-> VideoSource.TIKTOK],
    [domains |-> <<"facebook.com", "fb.watch", "fb.com">>, source |-> VideoSource.FACEBOOK],
    [domains |-> <<"instagram.com", "instagr.am">>, source |-> VideoSource.INSTAGRAM],
    [domains |-> <<"twitter.com", "x.com", "t.co">>, source |-> VideoSource.TWITTER],
    [domains |-> <<"vk.com", "vk.ru">>, source |-> VideoSource.VK],
    [domains |-> <<"twitch.tv">>, source |-> VideoSource.TWITCH],
    [domains |-> <<"reddit.com", "redd.it">>, source |-> VideoSource.REDDIT],
    [domains |-> <<"soundcloud.com">>, source |-> VideoSource.SOUNDCLOUD],
    [domains |-> <<"bandcamp.com">>, source |-> VideoSource.BANDCAMP],
    [domains |-> <<"vimeo.com">>, source |-> VideoSource.VIMEO],
    [domains |-> <<"dailymotion.com">>, source |-> VideoSource.DAILYMOTION],
    [domains |-> <<"spotify.com", "open.spotify.com">>, source |-> VideoSource.SPOTIFY] >>

\* any(domain in url_lower for domain in domains)
AnyDomainIn(url_lower, domains) ==
    \E d \in 1..Len(domains) : Contains(url_lower, domains[d])

get_video_source(u) ==
    LET url_lower == lower(u)
        hits == {k \in 1..Len(source_mapping) :
                    AnyDomainIn(url_lower, source_mapping[k].domains)}
    IN  IF hits = {} THEN VideoSource.OTHER_
        ELSE source_mapping[CHOOSE k \in hits : \A h \in hits : k <= h].source


(***************************************************************************)
(* sanitize_filename                                                       *)
(***************************************************************************)
PLACEHOLDER == "Unknown_Video"

\* index of the first ">" of s at or after i, 0 when there is none
RECURSIVE FirstGt(_, _)
FirstGt(s, i) ==
    IF i > Len(s) THEN 0
    ELSE IF Ch(s, i) = ">" THEN i
    ELSE FirstGt(s, i + 1)

\* the tag removal left out
StripTagsSkipped(s) == s

\* re.sub(r'<[^>]+>', '', filename)
RECURSIVE StripTags(_)
StripTags(s) ==
    IF s = "" THEN ""
    ELSE IF Ch(s, 1) = "<"
         THEN LET j == FirstGt(s, 2)
              IN  IF j > 2 THEN StripTags(SubSeq(s, j + 1, Len(s)))
                  ELSE "<" \o StripTags(Tail(s))
         ELSE Ch(s, 1) \o StripTags(Tail(s))

\* the character class [<>:"/\\|?*]
IllegalChars == {"<", ">", ":", "\"", "/", "\\", "|", "?", "*"}

\* re.sub(r'[<>:"/\\|?*]', '', filename)
RECURSIVE RemoveIllegal(_)
RemoveIllegal(s) ==
    IF s = "" THEN ""
    ELSE (IF Ch(s, 1) \in IllegalChars THEN "" ELSE Ch(s, 1)) \o RemoveIllegal(Tail(s))

\* the characters the class [^\w\s\-_.()\[\]{}] leaves in place
IsAllowed(c) ==
    IsWord(c) \/ IsSpace(c) \/ c \in {"-", "_", ".", "(", ")", "[", "]", "{", "}"}

\* re.sub(r'[^\w\s\-_.()\[\]{}]', '', filename)
RECURSIVE RemoveSpecial(_)
RemoveSpecial(s) ==
    IF s = "" THEN ""
    ELSE (IF IsAllowed(Ch(s, 1)) THEN Ch(s, 1) ELSE "") \o RemoveSpecial(Tail(s))

\* re.sub(r'\s+', ' ', filename)
RECURSIVE CollapseSpaces(_)
CollapseSpaces(s) ==
    IF s = "" THEN ""
    ELSE IF IsSpace(Ch(s, 1))
         THEN IF Len(s) >= 2 /\ IsSpace(Ch(s, 2))
              THEN CollapseSpaces(Tail(s))
              ELSE " " \o CollapseSpaces(Tail(s))
         ELSE Ch(s, 1) \o CollapseSpaces(Tail(s))

RECURSIVE lstrip(_)
lstrip(s) == IF s # "" /\ IsSpace(Ch(s, 1)) THEN lstrip(Tail(s)) ELSE s

RECURSIVE rstrip(_)
rstrip(s) ==
    IF s # "" /\ IsSpace(Ch(s, Len(s))) THEN rstrip(SubSeq(s, 1, Len(s) - 1)) ELSE s

\* str.strip()
strip(s) == rstrip(lstrip(s))

\* str.rstrip('.')
RECURSIVE rstrip_dots(_)
rstrip_dots(s) ==
    IF s # "" /\ Ch(s, Len(s)) = "." THEN rstrip_dots(SubSeq(s, 1, Len(s) - 1)) ELSE s

\* length of the run of non-space characters of s that starts at i
RECURSIVE WordLen(_, _)
WordLen(s, i) ==
    IF i > Len(s) \/ IsSpace(Ch(s, i)) THEN 0 ELSE 1 + WordLen(s, i + 1)

\* str.split(): the words of s, a sequence of strings
RECURSIVE split(_)
split(s) ==
    LET t == lstrip(s)
    IN  IF t = "" THEN <<>>
        ELSE LET n == WordLen(t, 1)
             IN  <<SubSeq(t, 1, n)>> \o split(SubSeq(t, n + 1, Len(t)))

\* the loop "for word in words[1:]" of the truncation, from word k on
RECURSIVE JoinWhileFits(_, _, _, _)
JoinWhileFits(result, words, k, maxlen) ==
    IF k > Len(words) THEN result
    ELSE IF Len(result \o " " \o words[k]) <= maxlen
         THEN JoinWhileFits(result \o " " \o words[k], words, k + 1, maxlen)
         ELSE result

\* the block "if len(filename) > max_length"
Truncate(s, maxlen) ==
    IF Len(s) > maxlen
    THEN LET words == split(s)
             result == IF words # <<>> THEN words[1] ELSE "Video"
         IN  JoinWhileFits(result, words, 2, maxlen)
    ELSE s

\* the return statement without its "or 'Unknown_Video'"
OrPlaceholderDropped(s) == s

\* "filename or 'Unknown_Video'" of the return statement
OrPlaceholder(s) == IF s = "" THEN PLACEHOLDER ELSE s

sanitize_filename(name, maxlen) ==
    IF name = "" \/ strip(name) = "" THEN PLACEHOLDER
    ELSE OrPlaceholder(Truncate(
            rstrip_dots(strip(CollapseSpaces(RemoveSpecial(RemoveIllegal(StripTags(name)))))),
            maxlen))

(***************************************************************************)
(* The sanitizer applied to every title of a bounded set.                  *)
(***************************************************************************)
MaxTitleLen == 4

TitleAlphabet == {"a", " ", ".", "<", ">", "?"}

RECURSIVE StringsUpTo(_, _)
StringsUpTo(alphabet, n) ==
    IF n = 0 THEN {""}
    ELSE LET S == StringsUpTo(alphabet, n - 1)
         IN  S \cup {s \o c : s \in S, c \in alphabet}

ExampleTitles == {"My <Cool> Video???", "abcdefghijklmnop", "a:b/c\\d|e*f\"g",
                  "Clip (1) [HD] {x}_y-z.", "one two three four"}

Titles == StringsUpTo(TitleAlphabet, MaxTitleLen) \cup ExampleTitles

DEFAULT_MAX_LENGTH == 180

MaxLengths == {1, 2, 10, DEFAULT_MAX_LENGTH}

InitSanitize ==
    /\ pc = "sanitize"
    /\ filename \in Titles
    /\ max_length \in MaxLengths
    /\ url = None
    /\ ret = None
    /\ ret2 = None
    /\ DlIdle
    /\ EnvIdle

Sanitize ==
    /\ pc = "sanitize"
    /\ ret' = sanitize_filename(filename, max_length)
    /\ pc' = "sanitized"
    /\ UNCHANGED <<url, filename, max_length, ret2>>
    /\ UNCHANGED dlVars
    /\ UNCHANGED envVars

SanitizeAgain ==
    /\ pc = "sanitized"
    /\ ret2' = sanitize_filename(ret, max_length)
    /\ pc' = "sanitized_twice"
    /\ UNCHANGED <<url, filename, max_length, ret>>
    /\ UNCHANGED dlVars
    /\ UNCHANGED envVars

NextSanitize == Sanitize \/ SanitizeAgain

SpecSanitize == InitSanitize /\ [][NextSanitize]_vars

\* C2: the sanitizer's result is never empty and holds no character of
\* <>:"/\|?* ; an empty title and a title of illegal characters only give
\* the placeholder
C2_NonEmptyLegal ==
    pc = "sanitized" =>
        /\ ret # ""
        /\ \A i \in 1..Len(ret) : Ch(ret, i) \notin {"<", ">", ":", "\"", "/", "\\", "|", "?", "*"}
        /\ (filename = "" \/ \A i \in 1..Len(filename) : Ch(filename, i) \in {"<", ">", "?"})
              => ret = "Unknown_Video"

C2_Witness ==
    /\ pc = "sanitized"
    /\ filename = "?a<?"
    /\ ret = "a"

\* C3 as claimed: the result is never longer than max_length
C3_AtMostMaxLength == pc = "sanitized" => Len(ret) <= max_length

\* C4 as claimed: the example title keeps the word between the angle brackets
C4_ExampleKeepsCool ==
    (pc = "sanitized" /\ filename = "My <Cool> Video???") => ret = "My Cool Video"

\* C4 amended: a markup tag is removed whole, so the example title
\* sanitizes to "My Video" when max_length does not force a truncation
C4_ExampleDropsTag ==
    (pc = "sanitized" /\ filename = "My <Cool> Video???" /\ max_length >= 8)
        => ret = "My Video"

C4_Witness ==
    /\ pc = "sanitized"
    /\ filename = "My <Cool> Video???"
    /\ max_length = 180
    /\ ret = "My Video"

(***************************************************************************)
(* The classifier applied to every URL of a bounded set.                   *)
(***************************************************************************)
MaxPathSegs == 2

Schemes == {"https://", "https://www.", "HTTP://M."}

Hosts == {"youtube.com", "youtu.be", "youtube-nocookie.com", "tiktok.com",
          "facebook.com", "fb.watch", "fb.com", "instagram.com", "instagr.am",
          "twitter.com", "x.com", "t.co", "vk.com", "vk.ru", "twitch.tv",
          "reddit.com", "redd.it", "soundcloud.com", "bandcamp.com", "vimeo.com",
          "dailymotion.com", "open.spotify.com", "Reddit.Com", "example.org",
          "rutube.ru"}

PathSegs == {"/video", "/42"}

RECURSIVE PathsUpTo(_)
PathsUpTo(n) ==
    IF n = 0 THEN {""}
    ELSE LET S == PathsUpTo(n - 1)
         IN  S \cup {q \o g : q \in S, g \in PathSegs}

SourceUrls == {sc \o h \o q : sc \in Schemes, h \in Hosts, q \in PathsUpTo(MaxPathSegs)}

InitSource ==
    /\ pc = "classify"
    /\ url \in SourceUrls
    /\ filename = None
    /\ max_length = 0
    /\ ret = None
    /\ ret2 = None
    /\ DlIdle
    /\ EnvIdle

Classify ==
    /\ pc = "classify"
    /\ ret' = get_video_source(url)
    /\ pc' = "classified"
    /\ UNCHANGED <<url, filename, max_length, ret2>>
    /\ UNCHANGED dlVars
    /\ UNCHANGED envVars

NextSource == Classify

SpecSource == InitSource /\ [][NextSource]_vars

\* index of the first occurrence of sub in s at or after i, 0 when there is none
RECURSIVE IndexFrom(_, _, _)
IndexFrom(s, sub, i) ==
    IF i + Len(sub) - 1 > Len(s) THEN 0
    ELSE IF SubSeq(s, i, i + Len(sub) - 1) = sub THEN i
    ELSE IndexFrom(s, sub, i + 1)

\* the host of a URL: what stands between "://" and the next "/"
HostOf(u) ==
    LET a == IndexFrom(u, "://", 1)
        b == IF a = 0 THEN 1 ELSE a + 3
        e == IndexFrom(u, "/", b)
    IN  lower(SubSeq(u, b, IF e = 0 THEN Len(u) ELSE e - 1))

\* the host is the domain f or a subdomain of it
HostIs(u, f) ==
    LET h == HostOf(u)
    IN  \/ h = f
        \/ Len(h) > Len(f) /\ SubSeq(h, Len(h) - Len(f), Len(h)) = "." \o f

\* C1 as claimed: a URL whose host is a domain of the table is labelled with
\* that domain's platform (reddit.com Reddit, soundcloud.com SoundCloud, ...),
\* and the label is Other exactly when the URL holds no fragment of the table
C1_HostGetsItsLabel ==
    pc = "classified" =>
        /\ \A k \in 1..Len(source_mapping) :
              \A d \in 1..Len(source_mapping[k].domains) :
                 HostIs(url, source_mapping[k].domains[d]) => ret = source_mapping[k].source
        /\ ret = VideoSource.OTHER_ <=>
              \A k \in 1..Len(source_mapping) :
                 \A d \in 1..Len(source_mapping[k].domains) :
                    ~Contains(lower(url), source_mapping[k].domains[d])

(***************************************************************************)
(* _fix_facebook_url: re.search of six patterns, in list order, on the URL *)
(* as given (the patterns are case-sensitive).  A pattern yields the text  *)
(* of its group 1, or None when it matches nowhere.                        *)
(***************************************************************************)
\* the quantifier {15,16} of the id group
ID_MIN == 15

ID_MAX == 16

\* length of the run of digits of s that starts at i
RECURSIVE DigitRun(_, _)
DigitRun(s, i) ==
    IF i > Len(s) \/ ~IsDigit(Ch(s, i)) THEN 0 ELSE 1 + DigitRun(s, i + 1)

\* (\d{15,16}) can match at q
IdAt(s, q) == DigitRun(s, q) >= ID_MIN

\* the text the greedy group (\d{15,16}) captures at q
Capture(s, q) == SubSeq(s, q, q + Min(ID_MAX, DigitRun(s, q)) - 1)

\* a pattern made of a literal and the id group: the leftmost match
LiteralThenId(s, lit) ==
    LET starts == {i \in 1..Len(s) :
                      /\ StartsAt(s, lit, i)
                      /\ IdAt(s, i + Len(lit))}
    IN  IF starts = {} THEN None
        ELSE Capture(s, (CHOOSE i \in starts : \A j \in starts : i <= j) + Len(lit))

\* r'/reel/(\d{15,})': the id group without its upper limit
pattern_reel_unlimited(s) ==
    LET lit == "/reel/"
        starts == {i \in 1..Len(s) : StartsAt(s, lit, i) /\ IdAt(s, i + Len(lit))}
    IN  IF starts = {} THEN None
        ELSE LET q == (CHOOSE i \in starts : \A j \in starts : i <= j) + Len(lit)
             IN  SubSeq(s, q, q + DigitRun(s, q) - 1)

\* r'/reel/(\d{15,16})'
pattern_reel(s) == LiteralThenId(s, "/reel/")

\* r'/watch/\?v=(\d{15,16})'
pattern_watch(s) == LiteralThenId(s, "/watch/?v=")

\* r'/videos/(\d{15,16})'
pattern_videos(s) == LiteralThenId(s, "/videos/")

\* length of the run of characters other than "/" of s that starts at i
RECURSIVE NonSlashRun(_, _)
NonSlashRun(s, i) ==
    IF i > Len(s) \/ Ch(s, i) = "/" THEN 0 ELSE 1 + NonSlashRun(s, i + 1)

\* where the id group starts when r'fb\.watch/[^/]+.*?(\d{15,16})' is tried
\* with [^/]+ starting at p: [^/]+ is greedy (the longest run first), .*? is
\* lazy (the nearest id first); 0 when the pattern does not match there
FbWatchIdStart(s, p) ==
    LET run == NonSlashRun(s, p)
        ks == {k \in 1..run : \E q \in (p + k)..Len(s) : IdAt(s, q)}
    IN  IF ks = {} THEN 0
        ELSE LET k == CHOOSE x \in ks : \A y \in ks : x >= y
                 qs == {q \in (p + k)..Len(s) : IdAt(s, q)}
             IN  CHOOSE q \in qs : \A z \in qs : q <= z

\* r'fb\.watch/[^/]+.*?(\d{15,16})'
pattern_fbwatch(s) ==
    LET lit == "fb.watch/"
        starts == {i \in 1..Len(s) :
                      /\ StartsAt(s, lit, i)
                      /\ FbWatchIdStart(s, i + Len(lit)) # 0}
    IN  IF starts = {} THEN None
        ELSE Capture(s, FbWatchIdStart(s,
                 (CHOOSE i \in starts : \A j \in starts : i <= j) + Len(lit)))

\* r'video_id[=:](\d{15,16})'
pattern_video_id(s) ==
    LET lit == "video_id"
        starts == {i \in 1..Len(s) :
                      /\ StartsAt(s, lit, i)
                      /\ \E c \in {"=", ":"} : StartsAt(s, c, i + Len(lit))
                      /\ IdAt(s, i + Len(lit) + 1)}
    IN  IF starts = {} THEN None
        ELSE Capture(s, (CHOOSE i \in starts : \A j \in starts : i <= j) + Len(lit) + 1)

\* \b between the characters i-1 and i of s
WordBoundary(s, i) ==
    LET before == i > 1 /\ i - 1 <= Len(s) /\ IsWord(Ch(s, i - 1))
        after == i >= 1 /\ i <= Len(s) /\ IsWord(Ch(s, i))
    IN  before # after

\* how many digits the group of r'\b(\d{15,16})\b' takes at i: the longest
\* count of 16 or 15 that ends on a word boundary; 0 when there is no match
BareIdLen(s, i) ==
    LET n == DigitRun(s, i)
        lens == {m \in ID_MIN..ID_MAX : m <= n /\ WordBoundary(s, i + m)}
    IN  IF ~WordBoundary(s, i) \/ lens = {} THEN 0
        ELSE CHOOSE m \in lens : \A x \in lens : m >= x

\* r'\b(\d{15,16})\b'
pattern_bare(s) ==
    LET starts == {i \in 1..Len(s) : BareIdLen(s, i) # 0}
    IN  IF starts = {} THEN None
        ELSE LET i == CHOOSE x \in starts : \A y \in starts : x <= y
             IN  SubSeq(s, i, i + BareIdLen(s, i) - 1)

\* the list "patterns", each pattern applied to the URL
patterns(s) ==
    << pattern_reel(s), pattern_watch(s), pattern_videos(s),
       pattern_fbwatch(s), pattern_video_id(s), pattern_bare(s) >>

\* f"https://www.facebook.com/watch/?v={video_id}"
fixed_url(video_id) == "https://www.facebook.com/watch/?v=" \o video_id

\* the loop without its "return": the last pattern that matches decides
RECURSIVE LastMatch(_, _, _)
LastMatch(u, ms, k) ==
    IF k > Len(ms) THEN u
    ELSE LET later == LastMatch(u, ms, k + 1)
         IN  IF later # u \/ ms[k] = None THEN later ELSE fixed_url(ms[k])

\* the loop "for pattern in patterns": the first pattern that matches decides
RECURSIVE FirstMatch(_, _, _)
FirstMatch(u, ms, k) ==
    IF k > Len(ms) THEN u
    ELSE IF ms[k] # None THEN fixed_url(ms[k])
    ELSE FirstMatch(u, ms, k + 1)

\* the fixup working on url.lower() throughout
_fix_facebook_url_lowered(u) ==
    IF ~Contains(lower(u), "facebook.com") /\ ~Contains(lower(u), "fb.watch")
    THEN u
    ELSE LET ms == patterns(lower(u)) IN FirstMatch(lower(u), ms, 1)

_fix_facebook_url(u) ==
    IF ~Contains(lower(u), "facebook.com") /\ ~Contains(lower(u), "fb.watch")
    THEN u
    ELSE LET ms == patterns(u) IN FirstMatch(u, ms, 1)

(***************************************************************************)
(* The fixup applied once and twice to every URL of a bounded set.         *)
(***************************************************************************)
MaxUrlSegs == 3

FbPrefixes == {"https://www.Facebook.com", "https://fb.watch", "https://youtu.be"}

FbSegs == {"/reel/", "/videos/987654321098765", "/watch/?v=", "/AbC123/?x=", "&video_id=",
           "1234567890123456", "11112222333344445", "x"}

RECURSIVE SegsUpTo(_)
SegsUpTo(n) ==
    IF n = 0 THEN {""}
    ELSE LET S == SegsUpTo(n - 1)
         IN  S \cup {q \o g : q \in S, g \in FbSegs}

FbUrls == {a \o q : a \in FbPrefixes, q \in SegsUpTo(MaxUrlSegs)}

InitFacebook ==
    /\ pc = "fix"
    /\ url \in FbUrls
    /\ filename = None
    /\ max_length = 0
    /\ ret = None
    /\ ret2 = None
    /\ DlIdle
    /\ EnvIdle

FixFacebook ==
    /\ pc = "fix"
    /\ ret' = _fix_facebook_url(url)
    /\ pc' = "fixed"
    /\ UNCHANGED <<url, filename, max_length, ret2>>
    /\ UNCHANGED dlVars
    /\ UNCHANGED envVars

FixFacebookAgain ==
    /\ pc = "fixed"
    /\ ret2' = _fix_facebook_url(ret)
    /\ pc' = "fixed_twice"
    /\ UNCHANGED <<url, filename, max_length, ret>>
    /\ UNCHANGED dlVars
    /\ UNCHANGED envVars

NextFacebook == FixFacebook \/ FixFacebookAgain

SpecFacebook == InitFacebook /\ [][NextFacebook]_vars

\* C5: the fixup is idempotent: applied to its own result it returns that result
C5_FixIdempotent == pc = "fixed_twice" => ret2 = ret

\* an id of 17 digits: the first application rewrote the URL, the second kept it
C5_Witness ==
    /\ pc = "fixed_twice"
    /\ url = "https://www.Facebook.com/reel/11112222333344445"
    /\ ret = "https://www.facebook.com/watch/?v=1111222233334444"
    /\ ret2 = ret

\* the groups the six patterns capture in u, in list order
C6_Groups(u) ==
    << pattern_reel(u), pattern_watch(u), pattern_videos(u),
       pattern_fbwatch(u), pattern_video_id(u), pattern_bare(u) >>

\* C6: when a URL holding facebook.com or fb.watch is matched by a pattern,
\* the result is the canonical watch URL of the 15 or 16 digits captured by
\* the first pattern of the list that matches; the fb.watch example gives
\* https://www.facebook.com/watch/?v=1234567890123456
C6_FirstPatternDecides ==
    pc = "fixed" =>
        LET groups == C6_Groups(url)
            is_facebook == Contains(lower(url), "facebook.com") \/ Contains(lower(url), "fb.watch")
        IN  /\ \A k \in 1..6 :
                  (is_facebook /\ groups[k] # None /\ \A j \in 1..(k - 1) : groups[j] = None)
                  => /\ ret = "https://www.facebook.com/watch/?v=" \o groups[k]
                     /\ Len(groups[k]) \in {15, 16}
                     /\ \A i \in 1..Len(groups[k]) : IsDigit(Ch(groups[k], i))
            /\ url = "https://fb.watch/AbC123/?x=1234567890123456"
                  => ret = "https://www.facebook.com/watch/?v=1234567890123456"

\* the videos id stands first in the URL, the reel pattern first in the list
C6_Witness ==
    /\ pc = "fixed"
    /\ url = "https://www.Facebook.com/videos/987654321098765/reel/1234567890123456"
    /\ ret = "https://www.facebook.com/watch/?v=1234567890123456"

(***************************************************************************)
(* The journal: rows of downloads_log.csv as csv.writer writes them, each  *)
(* row a sequence of fields.  Texts the source has in Russian are given in *)
(* English.                                                                *)
(***************************************************************************)
\* the header row of _setup_directories
HEADER == << "ID", "Format", "Download time", "Source", "URL", "Title", "Tags",
             "File path", "File size (MB)", "Duration", "Playlist",
             "Playlist position", "Downloaded by", "Auto-delete", "Proxy",
             "Quality", "Notes", "Status" >>

\* values the clock decides
RECORD_ID == "<record_id>"

TIMESTAMP == "<timestamp>"

STATUS_OK == "Success"

STATUS_NOT_FOUND == "Error: file not found"

STATUS_INSTAGRAM == "Error: Instagram authorization required"

STATUS_TIKTOK == "Error: TikTok video unavailable"

STATUS_SOUNDCLOUD == "Error: SoundCloud track is private"

\* str(Path(""))
NO_PATH == "."

\* info_dict.get(key, default)
Get(d, key, default) == IF key \in DOMAIN d THEN d[key] ELSE default

\* the list of log_download with the placeholder of the auto-delete column forgotten
JournalRowShort(info, cfg, file_path, status) ==
    << RECORD_ID, cfg.output_format, TIMESTAMP, get_video_source(cfg.url), cfg.url,
       Get(info, "title", "Unknown title"), "No tags", file_path,
       IF file_path = NO_PATH THEN "0.0" ELSE "<size>", "Unknown",
       Get(info, "playlist_title", cfg.playlist_name), Get(info, "playlist_index", ""),
       cfg.downloaded_by, IF cfg.proxy_used THEN "Yes" ELSE "No", cfg.quality,
       cfg.notes, status >>

\* the list log_download hands to writer.writerow
JournalRow(info, cfg, file_path, status) ==
    << RECORD_ID,
       cfg.output_format,
       TIMESTAMP,
       get_video_source(cfg.url),
       cfg.url,
       Get(info, "title", "Unknown title"),
       "No tags",
       file_path,
       IF file_path = NO_PATH THEN "0.0" ELSE "<size>",
       "Unknown",
       Get(info, "playlist_title", cfg.playlist_name),
       Get(info, "playlist_index", ""),
       cfg.downloaded_by,
       "",
       IF cfg.proxy_used THEN "Yes" ELSE "No",
       cfg.quality,
       cfg.notes,
       status >>

\* log_download: the file after the call; a failed write leaves it as it was
log_download(file, info, cfg, file_path, status, write_ok) ==
    IF write_ok THEN Append(file, JournalRow(info, cfg, file_path, status)) ELSE file

(***************************************************************************)
(* The options handed to the wrapped library.                              *)
(***************************************************************************)
\* class OutputFormat(Enum)
OutputFormat ==
    [MP4 |-> "mp4",
     MP3 |-> "mp3",
     WEBM |-> "webm",
     BEST_VIDEO |-> "best_video",
     BEST_AUDIO |-> "best_audio"]





\* format_mapping of _get_ydl_opts with AppConfig.max_video_height = 1080
format_mapping(output_format) ==
    CASE output_format = OutputFormat.MP4 ->
            "best[height<=1080][ext=mp4]/best[height<=720][ext=mp4]/best[ext=mp4]/best"
      [] output_format = OutputFormat.WEBM -> "best[ext=webm]/best[height<=1080]/best"
      [] output_format = OutputFormat.BEST_VIDEO -> "best[height<=1080]/best[height<=720]/best"
      [] output_format = OutputFormat.BEST_AUDIO -> "bestaudio[ext=m4a]/bestaudio[ext=mp3]/bestaudio/best"
      [] output_format = OutputFormat.MP3 -> "bestaudio[ext=m4a]/bestaudio/best"
      [] OTHER -> "best[height<=1080]"

\* _get_ydl_opts: the entries of the options the fallback can replace, and
\* the playlist switch; the dictionaries are named by their keys
_get_ydl_opts(cfg) ==
    [ format |-> format_mapping(cfg.output_format),
      extractor_args |-> "youtube,instagram,facebook,tiktok,soundcloud",
      http_headers |-> "Accept,Accept-Language,Accept-Encoding,Accept-Charset,Keep-Alive,Connection",
      ignoreerrors |-> TRUE,
      noplaylist |-> ~cfg.download_playlist ]

\* ydl_opts_fallback: ydl_opts.copy() updated by the branch the URL selects
fallback_opts(opts, u) ==
    IF Contains(lower(u), "facebook")
    THEN [opts EXCEPT !.format = "best[height<=720]/worst",
                      !.extractor_args = "facebook",
                      !.http_headers = "User-Agent(iPhone),Accept-Language,Accept,DNT,Referer"]
    ELSE IF Contains(lower(u), "soundcloud")
    THEN [opts EXCEPT !.format = "best",
                      !.extractor_args = "soundcloud(use_oauth=False)"]
    ELSE IF Contains(lower(u), "youtube") \/ Contains(lower(u), "youtu.be")
    THEN [opts EXCEPT !.format = "best[height<=720]/best[height<=480]/worst",
                      !.extractor_args = "youtube(android_creator,android)"]
    ELSE [opts EXCEPT !.format = "best[height<=720]/worst",
                      !.ignoreerrors = TRUE]

(***************************************************************************)
(* What the wrapped library can answer.                                    *)
(***************************************************************************)
MaxEntries == 2

\* the classes "except (DownloadError, ExtractorError, ImportError, ValueError)" names
ProbeErrors == {"DownloadError", "ExtractorError", "ImportError", "ValueError"}

\* a class that "except Exception" catches and the one it does not
ExceptionClasses == ProbeErrors \cup {"OSError", "KeyboardInterrupt"}

Messages == {"ERROR: Cannot parse data", "YouTube is forcing SABR streaming",
             "Some formats have been skipped", "HTTP Error 404: Not Found"}

\* the except clause of download_video that catches an exception of the class
HandlerOf(class) == IF class = "KeyboardInterrupt" THEN "KeyboardInterrupt" ELSE "Exception"

\* the test of the message without the lower-casing
KnownSignatureCaseSensitive(msg) ==
    \/ Contains(msg, "cannot parse data")
    \/ Contains(msg, "sabr streaming")
    \/ Contains(msg, "formats have been skipped")

\* the test of the message in the handler of the probe
KnownSignature(msg) ==
    LET error_msg == lower(msg)
    IN  \/ Contains(error_msg, "cannot parse data")
        \/ Contains(error_msg, "sabr streaming")
        \/ Contains(error_msg, "formats have been skipped")

\* metadata of one video: "formats" tells whether info_dict.get('formats') is
\* a non-empty list, "text" what str(info_dict) holds besides
VideoInfos ==
    [title : {"Clip"}, formats : BOOLEAN, text : {"", "private", "login_required"}]

\* the entry at position k of a playlist
PlaylistEntry(k) ==
    [title |-> "Part", webpage_url |-> "https://example.org/part/" \o ToString(k)]

RECURSIVE EntryLists(_)
EntryLists(n) ==
    IF n = 0 THEN {<<>>}
    ELSE LET S == EntryLists(n - 1)
         IN  S \cup UNION {{Append(e, x) : x \in {Null, PlaylistEntry(Len(e) + 1)}} : e \in S}

PlaylistInfos == [title : {"Mix"}, entries : EntryLists(MaxEntries)]

\* what extract_info(url, download=False) can return
ProbeResults == {Null} \cup VideoInfos \cup PlaylistInfos

(***************************************************************************)
(* One run of the program: start, one request, the probes.                 *)
(***************************************************************************)
RequestUrls == {"https://www.youtube.com/watch?v=abc",
                "https://www.facebook.com/reel/1234567890123456",
                "https://fb.watch/Share/AbC",
                "https://www.instagram.com/p/xyz",
                "https://www.tiktok.com/@user/video/7",
                "https://soundcloud.com/artist/track",
                "https://example.org/video"}

\* int(input(...)) of main: any integer the user types, 1 without a playlist
MaxDownloads == -1..MaxEntries

RequestFormats == {OutputFormat.MP4, OutputFormat.MP3}

\* DownloadConfig as main builds it
DownloadConfig(u, output_format, download_playlist, max_downloads) ==
    [ url |-> u, output_format |-> output_format, downloaded_by |-> "User",
      playlist_name |-> "", proxy_used |-> FALSE, notes |-> "", quality |-> "best",
      download_playlist |-> download_playlist, max_downloads |-> max_downloads ]

\* what an earlier run of the program can have left in the journal
EarlierJournals ==
    { <<HEADER,
        JournalRow([title |-> "Clip"],
                   DownloadConfig("https://example.org/video", OutputFormat.MP4, FALSE, 1),
                   "Downloads/<file>", STATUS_OK),
        JournalRow([title |-> "Clip"],
                   DownloadConfig("https://www.tiktok.com/@user/video/7", OutputFormat.MP3, FALSE, 1),
                   NO_PATH, STATUS_TIKTOK)>> }

Init ==
    /\ pc = "start"
    /\ PureIdle
    /\ EnvIdle
    /\ journal \in {NoFile} \cup EarlierJournals
    /\ config = Null
    /\ ydl_opts = Null
    /\ info_dict = Null
    /\ idx = 0
    /\ success_count = 0
    /\ success = None
    /\ probes = <<>>
    /\ downloads = <<>>
    /\ raised = Null
    /\ outcome = None
    /\ start_len = 0
    /\ log_failures = 0
    /\ unresolved = 0
    /\ requested = None
    /\ ydl_opts_fallback = Null
    /\ errors = {}
    /\ printed = None

\* _setup_directories opening the journal in mode 'w' without the test of
\* its existence
SetupTruncates ==
    /\ pc = "start"
    /\ journal' = <<HEADER>>
    /\ pc' = "ready"
    /\ config' = Null
    /\ ydl_opts' = Null
    /\ info_dict' = Null
    /\ idx' = 0
    /\ success_count' = 0
    /\ success' = None
    /\ probes' = <<>>
    /\ downloads' = <<>>
    /\ raised' = Null
    /\ outcome' = None
    /\ start_len' = 0
    /\ log_failures' = 0
    /\ unresolved' = 0
    /\ requested' = None
    /\ ydl_opts_fallback' = Null
    /\ errors' = {}
    /\ printed' = None
    /\ UNCHANGED pureVars
    /\ UNCHANGED envVars

\* VideoDownloader.__init__ with _setup_directories: the journal is created
\* with its header when the file does not exist, and left alone otherwise
Setup ==
    /\ pc = "start"
    /\ journal' = IF journal = NoFile THEN <<HEADER>> ELSE journal
    /\ pc' = "ready"
    /\ config' = Null
    /\ ydl_opts' = Null
    /\ info_dict' = Null
    /\ idx' = 0
    /\ success_count' = 0
    /\ success' = None
    /\ probes' = <<>>
    /\ downloads' = <<>>
    /\ raised' = Null
    /\ outcome' = None
    /\ start_len' = 0
    /\ log_failures' = 0
    /\ unresolved' = 0
    /\ requested' = None
    /\ ydl_opts_fallback' = Null
    /\ errors' = {}
    /\ printed' = None
    /\ UNCHANGED pureVars
    /\ UNCHANGED envVars

\* the first statement of download_video: config.url after the fixup
fixup(u) ==
    IF Contains(lower(u), "facebook.com") \/ Contains(lower(u), "fb.watch")
    THEN _fix_facebook_url(u) ELSE u

\* main leaving max_downloads at the default of DownloadConfig, 50, for a
\* request without the playlist flag
BeginDownloadDefaultBound ==
    /\ pc = "ready"
    /\ \E u \in RequestUrls, f \in RequestFormats, pl \in BOOLEAN, md \in MaxDownloads :
          /\ pl \/ md = 1
          /\ LET cfg == DownloadConfig(fixup(u), f, pl, IF pl THEN md ELSE 50)
             IN  /\ config' = cfg
                 /\ ydl_opts' = _get_ydl_opts(cfg)
          /\ requested' = u
    /\ start_len' = Len(journal)
    /\ pc' = "probe"
    /\ UNCHANGED <<journal, info_dict, idx, success_count, success, probes,
                   downloads, raised, outcome, log_failures, unresolved>>
    /\ UNCHANGED <<ydl_opts_fallback, errors, printed>>
    /\ UNCHANGED pureVars
    /\ UNCHANGED envVars

\* download_video up to the probe: the Facebook fixup and _get_ydl_opts
BeginDownload ==
    /\ pc = "ready"
    /\ \E u \in RequestUrls, f \in RequestFormats, pl \in BOOLEAN, md \in MaxDownloads :
          /\ pl \/ md = 1
          /\ LET cfg == DownloadConfig(fixup(u), f, pl, md)
             IN  /\ config' = cfg
                 /\ ydl_opts' = _get_ydl_opts(cfg)
          /\ requested' = u
    /\ start_len' = Len(journal)
    /\ pc' = "probe"
    /\ UNCHANGED <<journal, info_dict, idx, success_count, success, probes,
                   downloads, raised, outcome, log_failures, unresolved>>
    /\ UNCHANGED <<ydl_opts_fallback, errors, printed>>
    /\ UNCHANGED pureVars
    /\ UNCHANGED envVars

\* download_video returns v
Return(v, how) ==
    /\ success' = v
    /\ outcome' = how
    /\ pc' = "done"

\* the dispatch on 'entries' in info_dict, after a probe returned info
Dispatch(info) ==
    IF info = Null
    THEN Return(FALSE, "no_info") /\ UNCHANGED <<idx, success_count, config>>
    ELSE IF "entries" \in DOMAIN info
    THEN IF info.entries = <<>>
         THEN Return(FALSE, "empty_playlist") /\ UNCHANGED <<idx, success_count, config>>
         ELSE /\ pc' = "playlist"
              /\ config' = [config EXCEPT !.playlist_name = Get(info, "title", "Unknown_Playlist")]
              /\ idx' = 1
              /\ success_count' = 0
              /\ UNCHANGED <<success, outcome>>
    ELSE /\ pc' = "single"
         /\ UNCHANGED <<idx, success_count, success, outcome, config>>

\* ydl.extract_info(config.url, download=False) returns
ProbeReturns ==
    /\ pc = "probe"
    /\ \E info \in ProbeResults :
          /\ info_dict' = info
          /\ Dispatch(info)
    /\ probes' = Append(probes, "primary")
    /\ UNCHANGED <<journal, ydl_opts, downloads, raised, start_len, log_failures,
                   unresolved>>
    /\ UNCHANGED callVars
    /\ UNCHANGED pureVars
    /\ UNCHANGED envVars

\* the handler with "ydl_opts_fallback = ydl_opts" for the copy: the update
\* goes to the one dict both names stand for
ProbeRaisesAliased ==
    /\ pc = "probe"
    /\ \E class \in ExceptionClasses, msg \in Messages :
          /\ raised' = [class |-> class, msg |-> msg]
          /\ errors' = errors \cup {[stage |-> "probe", kind |-> HandlerOf(class)]}
          /\ IF class \in ProbeErrors /\ KnownSignature(msg)
             THEN /\ pc' = "fallback_probe"
                  /\ ydl_opts_fallback' = fallback_opts(ydl_opts, config.url)
                  /\ ydl_opts' = fallback_opts(ydl_opts, config.url)
                  /\ UNCHANGED <<success, outcome>>
             ELSE /\ Return(FALSE, IF class = "KeyboardInterrupt" THEN "interrupted"
                                   ELSE "probe_exception")
                  /\ UNCHANGED <<ydl_opts_fallback, ydl_opts>>
    /\ probes' = Append(probes, "primary")
    /\ UNCHANGED <<journal, config, info_dict, idx, success_count, 
                   downloads, start_len, log_failures, unresolved>>
    /\ UNCHANGED <<requested, printed>>
    /\ UNCHANGED pureVars
    /\ UNCHANGED envVars

\* ydl.extract_info raises: the handler starts the fallback for a known
\* signature in an error of the classes it names, anything else ends the request
ProbeRaises ==
    /\ pc = "probe"
    /\ \E class \in ExceptionClasses, msg \in Messages :
          /\ raised' = [class |-> class, msg |-> msg]
          /\ errors' = errors \cup {[stage |-> "probe", kind |-> HandlerOf(class)]}
          /\ IF class \in ProbeErrors /\ KnownSignature(msg)
             THEN /\ pc' = "fallback_probe"
                  /\ ydl_opts_fallback' = fallback_opts(ydl_opts, config.url)
                  /\ UNCHANGED <<success, outcome>>
             ELSE /\ Return(FALSE, IF class = "KeyboardInterrupt" THEN "interrupted"
                                   ELSE "probe_exception")
                  /\ UNCHANGED ydl_opts_fallback
    /\ probes' = Append(probes, "primary")
    /\ UNCHANGED <<journal, config, ydl_opts, info_dict, idx, success_count, 
                   downloads, start_len, log_failures, unresolved>>
    /\ UNCHANGED <<requested, printed>>
    /\ UNCHANGED pureVars
    /\ UNCHANGED envVars

\* ydl_fallback.extract_info returns: the fallback options become ydl_opts,
\* the handler ends and with it the binding of e
FallbackProbeReturns ==
    /\ pc = "fallback_probe"
    /\ \E info \in ProbeResults :
          /\ info_dict' = info
          /\ Dispatch(info)
    /\ ydl_opts' = ydl_opts_fallback
    /\ probes' = Append(probes, "fallback")
    /\ raised' = Null
    /\ UNCHANGED <<journal, downloads, start_len, log_failures, unresolved>>
    /\ UNCHANGED callVars
    /\ UNCHANGED pureVars
    /\ UNCHANGED envVars

\* ydl_fallback.extract_info raises inside the handler: the request ends
FallbackProbeRaises ==
    /\ pc = "fallback_probe"
    /\ \E class \in ExceptionClasses :
          /\ Return(FALSE, IF class = "KeyboardInterrupt" THEN "interrupted"
                           ELSE "probe_exception")
          /\ errors' = errors \cup {[stage |-> "fallback_probe", kind |-> HandlerOf(class)]}
    /\ probes' = Append(probes, "fallback")
    /\ UNCHANGED <<journal, config, ydl_opts, info_dict, idx, success_count, 
                   downloads, raised, start_len, log_failures, unresolved>>
    /\ UNCHANGED <<requested, ydl_opts_fallback, printed>>
    /\ UNCHANGED pureVars
    /\ UNCHANGED envVars

(***************************************************************************)
(* _download_single_video                                                  *)
(***************************************************************************)
\* the pre-download checks with the TikTok test written like the SoundCloud one
PlatformRejectionLenient(source, info) ==
    LET info_str == lower(info.text)
        no_formats == ~info.formats
    IN  IF source = VideoSource.INSTAGRAM
        THEN IF \/ \E indicator \in {"login_required", "private_account", "user_not_found"} :
                      Contains(info_str, indicator)
                \/ no_formats
             THEN STATUS_INSTAGRAM ELSE None
        ELSE IF source = VideoSource.TIKTOK
        THEN IF Contains(info_str, "private") /\ no_formats THEN STATUS_TIKTOK ELSE None
        ELSE IF source = VideoSource.SOUNDCLOUD
        THEN IF Contains(info_str, "private") /\ no_formats THEN STATUS_SOUNDCLOUD ELSE None
        ELSE None

\* the pre-download checks: the status of the failure row, None to go on
PlatformRejection(source, info) ==
    LET info_str == lower(info.text)
        no_formats == ~info.formats
    IN  IF source = VideoSource.INSTAGRAM
        THEN IF \/ \E indicator \in {"login_required", "private_account", "user_not_found"} :
                      Contains(info_str, indicator)
                \/ no_formats
             THEN STATUS_INSTAGRAM ELSE None
        ELSE IF source = VideoSource.TIKTOK
        THEN IF Contains(info_str, "private") \/ no_formats THEN STATUS_TIKTOK ELSE None
        ELSE IF source = VideoSource.SOUNDCLOUD
        THEN IF Contains(info_str, "private") /\ no_formats THEN STATUS_SOUNDCLOUD ELSE None
        ELSE None

\* a journal write of the request: the row is appended unless the write fails
WriteRow(info, file_path, status, write_ok) ==
    /\ journal' = log_download(journal, info, config, file_path, status, write_ok)
    /\ log_failures' = IF write_ok THEN log_failures ELSE log_failures + 1

FOUND_PATH == "Downloads/<file>"

\* a pre-download check rejects the video: a failure row, no download call
SingleRejected ==
    /\ pc = "single"
    /\ PlatformRejection(get_video_source(config.url), info_dict) # None
    /\ \E write_ok \in BOOLEAN :
          WriteRow(info_dict, NO_PATH,
                   PlatformRejection(get_video_source(config.url), info_dict), write_ok)
    /\ Return(FALSE, "rejected")
    /\ UNCHANGED <<config, ydl_opts, info_dict, idx, success_count, probes,
                   downloads, raised, start_len, unresolved>>
    /\ UNCHANGED callVars
    /\ UNCHANGED pureVars
    /\ UNCHANGED envVars

\* the download returns, and the row of a file that is not located is
\* written with the default status of log_download
SingleDownloadsDefaultStatus ==
    /\ pc = "single"
    /\ PlatformRejection(get_video_source(config.url), info_dict) = None
    /\ downloads' = Append(downloads, [opts |-> ydl_opts, target |-> config.url])
    /\ \E found \in BOOLEAN, write_ok \in BOOLEAN :
          IF found
          THEN /\ WriteRow(info_dict, FOUND_PATH, STATUS_OK, write_ok)
               /\ Return(TRUE, "success")
          ELSE /\ WriteRow(info_dict, NO_PATH, STATUS_OK, write_ok)
               /\ Return(FALSE, "file_not_found")
    /\ UNCHANGED <<config, ydl_opts, info_dict, idx, success_count, probes,
                   raised, start_len, unresolved>>
    /\ UNCHANGED callVars
    /\ UNCHANGED pureVars
    /\ UNCHANGED envVars

\* ydl.download returns and _find_downloaded_file answers
SingleDownloads ==
    /\ pc = "single"
    /\ PlatformRejection(get_video_source(config.url), info_dict) = None
    /\ downloads' = Append(downloads, [opts |-> ydl_opts, target |-> config.url])
    /\ \E found \in BOOLEAN, write_ok \in BOOLEAN :
          IF found
          THEN /\ WriteRow(info_dict, FOUND_PATH, STATUS_OK, write_ok)
               /\ Return(TRUE, "success")
          ELSE /\ WriteRow(info_dict, NO_PATH, STATUS_NOT_FOUND, write_ok)
               /\ Return(FALSE, "file_not_found")
    /\ UNCHANGED <<config, ydl_opts, info_dict, idx, success_count, probes,
                   raised, start_len, unresolved>>
    /\ UNCHANGED callVars
    /\ UNCHANGED pureVars
    /\ UNCHANGED envVars

\* ydl.download or _find_downloaded_file raises: "except Exception" journals
\* the error, a KeyboardInterrupt passes on to download_video, which returns
\* False
SingleDownloadRaises ==
    /\ pc = "single"
    /\ PlatformRejection(get_video_source(config.url), info_dict) = None
    /\ downloads' = Append(downloads, [opts |-> ydl_opts, target |-> config.url])
    /\ \E class \in {"DownloadError", "KeyboardInterrupt"}, msg \in Messages,
          write_ok \in BOOLEAN :
          /\ errors' = errors \cup {[stage |-> "single", kind |-> HandlerOf(class)]}
          /\ IF class = "KeyboardInterrupt"
             THEN /\ Return(FALSE, "interrupted")
                  /\ UNCHANGED <<journal, log_failures>>
             ELSE /\ WriteRow(info_dict, NO_PATH, "Error: " \o msg, write_ok)
                  /\ Return(FALSE, "exception")
    /\ UNCHANGED <<config, ydl_opts, info_dict, idx, success_count, probes,
                   raised, start_len, unresolved>>
    /\ UNCHANGED <<requested, ydl_opts_fallback, printed>>
    /\ UNCHANGED pureVars
    /\ UNCHANGED envVars

(***************************************************************************)
(* _download_playlist: one action per iteration of the loop                *)
(***************************************************************************)
\* s[:n] of Python: the first n items, all but the last -n for a negative n
SliceTo(s, n) ==
    IF n >= 0 THEN SubSeq(s, 1, Min(n, Len(s)))
    ELSE IF Len(s) + n > 0 THEN SubSeq(s, 1, Len(s) + n) ELSE <<>>

\* entries[:config.max_downloads], the entries the loop goes through
loop_entries == SliceTo(info_dict.entries, config.max_downloads)

\* "if entry is None: continue"
PlaylistSkipsNone ==
    /\ pc = "playlist"
    /\ idx <= Len(loop_entries)
    /\ loop_entries[idx] = Null
    /\ idx' = idx + 1
    /\ UNCHANGED <<pc, journal, config, ydl_opts, info_dict, success_count, success, 
                   probes, downloads, raised, outcome, start_len, log_failures, unresolved>>
    /\ UNCHANGED callVars
    /\ UNCHANGED pureVars
    /\ UNCHANGED envVars

\* the entry is downloaded, and counted only when log_download returns True
PlaylistEntryDownloadsCountsWrites ==
    /\ pc = "playlist"
    /\ idx <= Len(loop_entries)
    /\ loop_entries[idx] # Null
    /\ downloads' = Append(downloads, [opts |-> ydl_opts,
                                       target |-> loop_entries[idx].webpage_url])
    /\ \E found \in BOOLEAN, write_ok \in BOOLEAN :
          IF found
          THEN /\ WriteRow([title |-> loop_entries[idx].title,
                            webpage_url |-> loop_entries[idx].webpage_url,
                            playlist_index |-> ToString(idx),
                            playlist_title |-> Get(info_dict, "title", "Unknown_Playlist")],
                           FOUND_PATH, STATUS_OK, write_ok)
               /\ success_count' = IF write_ok THEN success_count + 1 ELSE success_count
               /\ UNCHANGED unresolved
          ELSE /\ unresolved' = unresolved + 1
               /\ UNCHANGED <<journal, log_failures, success_count>>
    /\ idx' = idx + 1
    /\ UNCHANGED <<pc, config, ydl_opts, info_dict, success, probes, raised,
                   outcome, start_len>>
    /\ UNCHANGED callVars
    /\ UNCHANGED pureVars
    /\ UNCHANGED envVars

\* the entry is downloaded: a row and a count when its file is located, a
\* warning when it is not
PlaylistEntryDownloads ==
    /\ pc = "playlist"
    /\ idx <= Len(loop_entries)
    /\ loop_entries[idx] # Null
    /\ downloads' = Append(downloads, [opts |-> ydl_opts,
                                       target |-> loop_entries[idx].webpage_url])
    /\ \E found \in BOOLEAN, write_ok \in BOOLEAN :
          IF found
          THEN /\ WriteRow([title |-> loop_entries[idx].title,
                            webpage_url |-> loop_entries[idx].webpage_url,
                            playlist_index |-> ToString(idx),
                            playlist_title |-> Get(info_dict, "title", "Unknown_Playlist")],
                           FOUND_PATH, STATUS_OK, write_ok)
               /\ success_count' = success_count + 1
               /\ UNCHANGED unresolved
          ELSE /\ unresolved' = unresolved + 1
               /\ UNCHANGED <<journal, log_failures, success_count>>
    /\ idx' = idx + 1
    /\ UNCHANGED <<pc, config, ydl_opts, info_dict, success, probes, raised,
                   outcome, start_len>>
    /\ UNCHANGED callVars
    /\ UNCHANGED pureVars
    /\ UNCHANGED envVars

\* the loop with a bare "except: continue", which catches the interruption too
PlaylistEntryRaisesBareExcept ==
    /\ pc = "playlist"
    /\ idx <= Len(loop_entries)
    /\ loop_entries[idx] # Null
    /\ downloads' = Append(downloads, [opts |-> ydl_opts,
                                       target |-> loop_entries[idx].webpage_url])
    /\ \E class \in {"DownloadError", "KeyboardInterrupt"} :
          /\ errors' = errors \cup {[stage |-> "playlist", kind |-> HandlerOf(class)]}
          /\ idx' = idx + 1
          /\ unresolved' = unresolved + 1
          /\ UNCHANGED <<pc, success, outcome>>
    /\ UNCHANGED <<journal, config, ydl_opts, info_dict, success_count, probes,
                   raised, start_len, log_failures>>
    /\ UNCHANGED <<requested, ydl_opts_fallback, printed>>
    /\ UNCHANGED pureVars
    /\ UNCHANGED envVars

\* the download or the file location of the entry raises: "except Exception:
\* continue"; a KeyboardInterrupt leaves the loop and download_video returns
\* False
PlaylistEntryRaises ==
    /\ pc = "playlist"
    /\ idx <= Len(loop_entries)
    /\ loop_entries[idx] # Null
    /\ downloads' = Append(downloads, [opts |-> ydl_opts,
                                       target |-> loop_entries[idx].webpage_url])
    /\ \E class \in {"DownloadError", "KeyboardInterrupt"} :
          /\ errors' = errors \cup {[stage |-> "playlist", kind |-> HandlerOf(class)]}
          /\ IF class = "KeyboardInterrupt"
             THEN /\ Return(FALSE, "interrupted")
                  /\ UNCHANGED <<idx, unresolved>>
             ELSE /\ idx' = idx + 1
                  /\ unresolved' = unresolved + 1
                  /\ UNCHANGED <<pc, success, outcome>>
    /\ UNCHANGED <<journal, config, ydl_opts, info_dict, success_count, probes,
                   raised, start_len, log_failures>>
    /\ UNCHANGED <<requested, ydl_opts_fallback, printed>>
    /\ UNCHANGED pureVars
    /\ UNCHANGED envVars

\* "return success_count > 0"
PlaylistReturns ==
    /\ pc = "playlist"
    /\ idx > Len(loop_entries)
    /\ Return(success_count > 0, "playlist")
    /\ UNCHANGED <<journal, config, ydl_opts, info_dict, idx, success_count, 
                   probes, downloads, raised, start_len, log_failures, unresolved>>
    /\ UNCHANGED callVars
    /\ UNCHANGED pureVars
    /\ UNCHANGED envVars

\* main after download_video returned: the final message
Report ==
    /\ pc = "done"
    /\ printed' = IF success THEN "Program finished successfully"
                  ELSE "An error occurred while downloading"
    /\ pc' = "exit"
    /\ UNCHANGED <<journal, config, ydl_opts, info_dict, idx, success_count, success,
                   probes, downloads, raised, outcome, start_len, log_failures,
                   unresolved, requested, ydl_opts_fallback, errors>>
    /\ UNCHANGED pureVars
    /\ UNCHANGED envVars

Next ==
    \/ Setup
    \/ BeginDownload
    \/ ProbeReturns
    \/ ProbeRaises
    \/ FallbackProbeReturns
    \/ FallbackProbeRaises
    \/ SingleRejected
    \/ SingleDownloads
    \/ SingleDownloadRaises
    \/ PlaylistSkipsNone
    \/ PlaylistEntryDownloads
    \/ PlaylistEntryRaises
    \/ PlaylistReturns
    \/ Report

Spec == Init /\ [][Next]_vars

(***************************************************************************)
(* Claims about the journal and the orchestrator.                          *)
(***************************************************************************)
\* the rows the request under way appended to the journal
NewRows == SubSeq(journal, start_len + 1, Len(journal))

RECURSIVE CountStatus(_, _)
\* how many of the rows have a status of the kind ok (success) or not ok
CountStatus(rows, ok) ==
    IF rows = <<>> THEN 0
    ELSE (IF (Head(rows)[18] = "Success") = ok THEN 1 ELSE 0) + CountStatus(Tail(rows), ok)

\* C7: once the downloader is constructed the journal starts with the header
\* of 18 columns, and every later row has 18 fields, each of the kind its
\* column documents
C7_JournalSchema ==
    pc # "start" =>
        /\ Len(journal) >= 1
        /\ journal[1] = << "ID", "Format", "Download time", "Source", "URL", "Title",
                           "Tags", "File path", "File size (MB)", "Duration", "Playlist",
                           "Playlist position", "Downloaded by", "Auto-delete", "Proxy",
                           "Quality", "Notes", "Status" >>
        /\ \A r \in 2..Len(journal) :
              /\ Len(journal[r]) = 18
              /\ journal[r][1] = "<record_id>"
              /\ journal[r][2] \in {"mp4", "mp3", "webm", "best_video", "best_audio"}
              /\ journal[r][3] = "<timestamp>"
              /\ journal[r][4] \in {"YouTube", "TikTok", "Facebook", "Instagram", "Twitter/X",
                                    "VK", "Twitch", "Reddit", "SoundCloud", "Bandcamp",
                                    "Vimeo", "Dailymotion", "Spotify", "Other"}
              /\ Contains(journal[r][5], "://")
              /\ journal[r][6] \in {"Clip", "Part"}
              /\ journal[r][7] = "No tags"
              /\ journal[r][8] \in {".", "Downloads/<file>"}
              /\ journal[r][9] \in {"0.0", "<size>"}
              /\ journal[r][10] = "Unknown"
              /\ journal[r][11] \in {"", "Mix"}
              /\ \A i \in 1..Len(journal[r][12]) : IsDigit(Ch(journal[r][12], i))
              /\ journal[r][13] = "User"
              /\ journal[r][14] = ""
              /\ journal[r][15] \in {"Yes", "No"}
              /\ journal[r][16] = "best"
              /\ journal[r][17] = ""
              /\ journal[r][18] = "Success" \/ StartsAt(journal[r][18], "Error: ", 1)

\* a playlist run appended two rows to a journal an earlier run had left
C7_Witness ==
    /\ pc = "done"
    /\ start_len = 3
    /\ Len(journal) = 5
    /\ journal[5][12] = "2"

\* C8 as claimed: a playlist of N entries, K of them unresolvable, leaves K
\* failure rows and N-K success rows, and succeeds iff K < N (N entries, none
\* of them null, all within max_downloads, no journal write failed)
C8_RowPerPlaylistEntry ==
    ( /\ pc = "done"
      /\ outcome = "playlist"
      /\ config.download_playlist
      /\ log_failures = 0
      /\ Len(info_dict.entries) <= config.max_downloads
      /\ \A k \in 1..Len(info_dict.entries) : info_dict.entries[k] # Null )
    => /\ CountStatus(NewRows, FALSE) = unresolved
       /\ CountStatus(NewRows, TRUE) = Len(info_dict.entries) - unresolved
       /\ success <=> unresolved < Len(info_dict.entries)

\* C9 as claimed: a single-video attempt that ends in success, in a
\* rejection or in an exception, the probe's included, appends exactly one
\* row when no journal write failed
C9_OneRowPerAttempt ==
    ( /\ pc = "done"
      /\ ~config.download_playlist
      /\ outcome \in {"success", "rejected", "exception", "file_not_found", "probe_exception"}
      /\ log_failures = 0 )
    => Len(journal) = start_len + 1

\* the message of a probe failure holds one of the three signatures
C10_HasSignature(msg) ==
    \E sig \in {"cannot parse data", "sabr streaming", "formats have been skipped"} :
        Contains(lower(msg), sig)

\* C10 as claimed: every probe failure with a signature in its message
\* starts the one fallback probe
C10_SignatureStartsFallback ==
    (raised # Null /\ C10_HasSignature(raised.msg))
    => \/ pc = "fallback_probe" /\ probes = <<"primary">>
       \/ pc = "done" /\ probes = <<"primary", "fallback">>

\* C10 amended: a probe failure of the classes DownloadError, ExtractorError,
\* ImportError, ValueError with a signature in its message starts exactly one
\* fallback probe; any other probe failure, and a failure of the fallback
\* probe, ends the request as failed with no further probe and no download
C10_ProbeRetriedOnce ==
    /\ probes \in {<<>>, <<"primary">>, <<"primary", "fallback">>}
    /\ pc = "fallback_probe" =>
          /\ raised # Null
          /\ raised.class \in {"DownloadError", "ExtractorError", "ImportError", "ValueError"}
          /\ C10_HasSignature(raised.msg)
          /\ probes = <<"primary">>
          /\ downloads = <<>>
    /\ raised # Null =>
          IF /\ raised.class \in {"DownloadError", "ExtractorError", "ImportError", "ValueError"}
             /\ C10_HasSignature(raised.msg)
          THEN \/ pc = "fallback_probe"
               \/ /\ pc \in {"done", "exit"}
                  /\ probes = <<"primary", "fallback">>
                  /\ downloads = <<>>
                  /\ success = FALSE
          ELSE /\ pc \in {"done", "exit"}
               /\ probes = <<"primary">>
               /\ downloads = <<>>
               /\ success = FALSE

\* the fallback probe ran after a signature in upper and lower case, and failed
C10_Witness ==
    /\ pc = "done"
    /\ raised # Null
    /\ raised.class = "ExtractorError"
    /\ raised.msg = "ERROR: Cannot parse data"
    /\ probes = <<"primary", "fallback">>
    /\ success = FALSE


(***************************************************************************)
(* Claims about the single-video attempt.                                  *)
(***************************************************************************)
\* the request ended in _download_single_video for content of the source
C11_SingleAttemptOf(source) ==
    /\ pc = "done"
    /\ info_dict # Null
    /\ "entries" \notin DOMAIN info_dict
    /\ get_video_source(config.url) = source

\* the metadata is flagged private
C11_FlaggedPrivate == Contains(lower(info_dict.text), "private")

\* the attempt was rejected before the download: no download call, False,
\* and, when the journal write did not fail, one failure row of the status
C11_RejectedWith(status) ==
    /\ success = FALSE
    /\ downloads = <<>>
    /\ log_failures = 0 =>
          /\ Len(NewRows) = 1
          /\ NewRows[1][18] = status
          /\ NewRows[1][8] = NO_PATH

\* C11 as claimed: Instagram content without formats, and TikTok or
\* SoundCloud content flagged private, is rejected before the download
C11_PrivateIsRejected ==
    /\ (C11_SingleAttemptOf(VideoSource.INSTAGRAM) /\ ~info_dict.formats)
          => C11_RejectedWith("Error: Instagram authorization required")
    /\ (C11_SingleAttemptOf(VideoSource.TIKTOK) /\ C11_FlaggedPrivate)
          => C11_RejectedWith("Error: TikTok video unavailable")
    /\ (C11_SingleAttemptOf(VideoSource.SOUNDCLOUD) /\ C11_FlaggedPrivate)
          => C11_RejectedWith("Error: SoundCloud track is private")

\* C11 amended: Instagram content without formats, TikTok content flagged
\* private, and SoundCloud content flagged private that has no formats
\* either, is rejected before the download: no download call, False, and
\* one failure row of a descriptive status unless the journal write fails
C11_RejectedBeforeDownload ==
    /\ (C11_SingleAttemptOf(VideoSource.INSTAGRAM) /\ ~info_dict.formats)
          => C11_RejectedWith("Error: Instagram authorization required")
    /\ (C11_SingleAttemptOf(VideoSource.TIKTOK) /\ C11_FlaggedPrivate)
          => C11_RejectedWith("Error: TikTok video unavailable")
    /\ (C11_SingleAttemptOf(VideoSource.SOUNDCLOUD) /\ C11_FlaggedPrivate /\ ~info_dict.formats)
          => C11_RejectedWith("Error: SoundCloud track is private")

\* a private SoundCloud track without formats was rejected and journaled
C11_Witness ==
    /\ C11_SingleAttemptOf(VideoSource.SOUNDCLOUD)
    /\ C11_FlaggedPrivate
    /\ ~info_dict.formats
    /\ downloads = <<>>
    /\ Len(NewRows) = 1
    /\ NewRows[1][18] = "Error: SoundCloud track is private"


\* the one row the attempt appended, when no journal write failed
C12_OneRow(status, file_path) ==
    log_failures = 0 =>
       /\ Len(NewRows) = 1
       /\ NewRows[1][18] = status
       /\ NewRows[1][8] = file_path

\* C12: a single-video attempt goes PROBE -> (FALLBACK_PROBE) -> DOWNLOAD ->
\* LOGGED: a download call is made only after the primary or the fallback
\* probe returned non-empty metadata and never twice; once the download
\* returned, a located file gives a success row and True, a file that is
\* not located gives a row of the status "file not found" and False
C12_ProbeDownloadLogged ==
    /\ downloads # <<>> =>
          /\ probes \in {<<"primary">>, <<"primary", "fallback">>}
          /\ info_dict # Null
    /\ pc \in {"probe", "fallback_probe", "single"} => downloads = <<>>
    /\ (pc = "done" /\ outcome = "success") =>
          /\ success = TRUE
          /\ Len(downloads) = 1
          /\ C12_OneRow("Success", "Downloads/<file>")
    /\ (pc = "done" /\ outcome = "file_not_found") =>
          /\ success = FALSE
          /\ Len(downloads) = 1
          /\ C12_OneRow("Error: file not found", ".")

\* after a fallback probe the download returned and its file was not
\* located: the row of the distinct status is in the journal
C12_Witness ==
    /\ pc = "done"
    /\ outcome = "file_not_found"
    /\ probes = <<"primary", "fallback">>
    /\ Len(downloads) = 1
    /\ Len(NewRows) = 1
    /\ NewRows[1][18] = "Error: file not found"


(***************************************************************************)
(* Claims about journal write failures and the playlist loop.              *)
(***************************************************************************)
RECURSIVE C13_Skipped(_, _)
\* how many of the first n entries are null
C13_Skipped(entries, n) ==
    IF n = 0 THEN 0
    ELSE (IF entries[n] = Null THEN 1 ELSE 0) + C13_Skipped(entries, n - 1)

\* C13: a journal write failure never changes the outcome: a single video
\* whose file is located gives True whether or not its row was written; in
\* a playlist every located entry counts as a success, written or not, the
\* loop goes on to the next entry and the result is True when an entry was
\* located
C13_WriteFailureAbsorbed ==
    /\ (pc = "done" /\ outcome = "success") => success = TRUE
    /\ (pc = "playlist" \/ (pc = "done" /\ outcome = "playlist")) =>
          /\ success_count = Len(NewRows) + log_failures
          /\ idx - 1 = success_count + unresolved + C13_Skipped(info_dict.entries, idx - 1)
    /\ (pc = "done" /\ outcome = "playlist") =>
          /\ idx - 1 = Len(loop_entries)
          /\ success = (Len(NewRows) + log_failures > 0)

\* the row of the first entry of a playlist was lost, the second entry was
\* downloaded and journaled all the same, and the playlist succeeded
C13_Witness ==
    /\ pc = "done"
    /\ outcome = "playlist"
    /\ log_failures = 1
    /\ Len(downloads) = 2
    /\ Len(NewRows) = 1
    /\ NewRows[1][12] = "2"
    /\ success = TRUE



\* C16: the journal is append-only: after every step the rows (the header
\* included) that were in the file before it are a prefix of the rows in
\* the file; a file that does not exist yet has no rows
C16_AppendOnly ==
    [][ /\ Len(journal') >= Len(journal)
        /\ SubSeq(journal', 1, Len(journal)) = journal ]_vars

\* rows were appended behind the rows an earlier run had left
C16_Witness ==
    /\ pc = "done"
    /\ start_len = 3
    /\ Len(journal) = 4
    /\ SubSeq(journal, 1, 3) \in EarlierJournals


RECURSIVE C14_Urls(_, _)
\* the addresses of the entries that are not null among the first n, in order
C14_Urls(entries, n) ==
    IF n <= 0 THEN <<>>
    ELSE LET rest == C14_Urls(entries, n - 1)
         IN  IF entries[n] = Null THEN rest
             ELSE Append(rest, entries[n].webpage_url)

\* the addresses the download calls were made for, in the order of the calls
C14_Targets == [k \in 1..Len(downloads) |-> downloads[k].target]

\* the loop is at position idx, or has ended without an interruption
C14_InLoop == pc = "playlist" \/ (pc = "done" /\ outcome = "playlist")

\* C14: the entries of a playlist are processed one at a time in list order
\* and at most max_downloads of them: the download calls made so far are
\* those of the entries before the current one that are not null, in list
\* order, whatever became of each; when the loop ends every entry within
\* the bound that is not null has had its download call
C14_InOrderWithinBound ==
    C14_InLoop =>
       /\ downloads # <<>> => Len(downloads) <= config.max_downloads
       /\ C14_Targets = C14_Urls(info_dict.entries, idx - 1)
       /\ pc = "done" =>
             C14_Targets = C14_Urls(info_dict.entries,
                                    Min(Len(info_dict.entries), config.max_downloads))

\* the same for a bound that is a count (max_downloads >= 0)
C14_InOrderForCounts ==
    (C14_InLoop /\ config.max_downloads >= 0) =>
       /\ Len(downloads) <= config.max_downloads
       /\ idx - 1 <= config.max_downloads
       /\ C14_Targets = C14_Urls(info_dict.entries, idx - 1)
       /\ pc = "done" =>
             C14_Targets = C14_Urls(info_dict.entries,
                                    Min(Len(info_dict.entries), config.max_downloads))


(***************************************************************************)
(* Claims about exceptions of the wrapped library.                         *)
(***************************************************************************)
\* download_video has returned
C17_Returned == pc \in {"done", "exit"}

\* main goes on to one of its two final messages
C17_FinalMessage ==
    /\ pc = "done" => ENABLED Report
    /\ pc = "exit" => printed = IF success THEN "Program finished successfully"
                                ELSE "An error occurred while downloading"

\* C17 as claimed: whenever the wrapped library raised at a stage of the
\* request, download_video returns False and main prints its final message
C17_AnyRaiseGivesFalse ==
    /\ (C17_Returned /\ errors # {}) => success = FALSE
    /\ C17_FinalMessage

\* what the library raised ended the request: an interruption at any stage,
\* a failure of the fallback probe, of the single download or of its file
\* location, a failure of the primary probe after which no fallback probe ran
C17_Ending(e) ==
    \/ e.kind = "KeyboardInterrupt"
    \/ e.stage \in {"fallback_probe", "single"}
    \/ e.stage = "probe" /\ probes = <<"primary">>

\* C17 amended: download_video always returns and main prints its final
\* message; the value is False when what the library raised ended the
\* request; an exception at one entry of a playlist, and a failure of the
\* primary probe that the fallback probe made good, are absorbed and leave
\* the value to the rest of the request
C17_RaiseNeverPropagates ==
    /\ C17_Returned => success \in BOOLEAN
    /\ C17_Returned => \A e \in errors : C17_Ending(e) => success = FALSE
    /\ C17_FinalMessage

\* the primary probe failed, the fallback probe returned, the download was
\* interrupted: False, and the final message of a failure
C17_Witness ==
    /\ pc = "exit"
    /\ errors = {[stage |-> "probe", kind |-> "Exception"],
                 [stage |-> "single", kind |-> "KeyboardInterrupt"]}
    /\ success = FALSE
    /\ printed = "An error occurred while downloading"


(***************************************************************************)
(* Claims about the request URL and the options of the download.           *)
(***************************************************************************)
\* the URL is the canonical watch URL of an id of 15 or 16 digits
C18_Canonical(u) ==
    LET prefix == "https://www.facebook.com/watch/?v="
        video_id == SubSeq(u, Len(prefix) + 1, Len(u))
    IN  /\ StartsAt(u, prefix, 1)
        /\ Len(video_id) \in {15, 16}
        /\ \A i \in 1..Len(video_id) : IsDigit(Ch(video_id, i))

\* the URL u that download_video works with, for the URL req it was passed
C18_Kept(req, u) ==
    LET is_facebook == \/ Contains(lower(req), "facebook.com")
                       \/ Contains(lower(req), "fb.watch")
        groups == C6_Groups(req)
    IN  /\ ~is_facebook => u = req
        /\ (\A k \in 1..6 : groups[k] = None) => u = req
        /\ u # req => C18_Canonical(u)

\* C18: download_video leaves the URL of the request as it was passed when
\* it holds neither facebook.com nor fb.watch (case-insensitively) or when
\* none of the six patterns matches; a URL it does change has become the
\* canonical Facebook watch URL, and no later step of the request changes
\* the URL again
C18_UrlKeptOrCanonical ==
    [][ /\ (config = Null /\ config' # Null) => C18_Kept(requested', config'.url)
        /\ (config # Null /\ config' # Null) =>
              /\ config'.url = config.url
              /\ requested' = requested ]_vars

\* a request of fb.watch that no pattern matches went on with its URL as it
\* was, and a reel URL was rewritten
C18_Witness ==
    /\ pc = "done"
    /\ requested = "https://fb.watch/Share/AbC"
    /\ config.url = requested

C18_RewrittenWitness ==
    /\ pc = "done"
    /\ requested = "https://www.facebook.com/reel/1234567890123456"
    /\ config.url = "https://www.facebook.com/watch/?v=1234567890123456"


\* C19: the download stage, single or playlist, uses the fallback options
\* if and only if the fallback probe ran and returned, and the primary
\* options when the primary probe returned; the two differ, and the step
\* that builds the fallback options leaves the format selector, the
\* extractor arguments and the headers of the primary options as they were
C19_OptionsOfDownload ==
    [][ /\ (ydl_opts_fallback = Null /\ ydl_opts_fallback' # Null) =>
              /\ ydl_opts'.format = ydl_opts.format
              /\ ydl_opts'.extractor_args = ydl_opts.extractor_args
              /\ ydl_opts'.http_headers = ydl_opts.http_headers
              /\ ydl_opts_fallback' # ydl_opts
        /\ \A k \in 1..Len(downloads') :
              /\ probes' = <<"primary", "fallback">> =>
                    /\ downloads'[k].opts = ydl_opts_fallback'
                    /\ downloads'[k].opts # _get_ydl_opts(config')
              /\ probes' = <<"primary">> =>
                    downloads'[k].opts = _get_ydl_opts(config') ]_vars

\* both entries of a playlist were downloaded with the fallback options
C19_Witness ==
    /\ pc = "done"
    /\ probes = <<"primary", "fallback">>
    /\ Len(downloads) = 2
    /\ \A k \in 1..2 : downloads[k].opts = ydl_opts_fallback
    /\ ydl_opts_fallback.format # _get_ydl_opts(config).format


(***************************************************************************)
(* load_config: the settings file read into an AppConfig.                  *)
(***************************************************************************)
\* a value of the YAML document: its Python type and its str()
YNull == [t |-> "null", v |-> "None"]
\* a value of the type t: v is the text str() gives for a scalar, the items
\* of a list, the function of a dict
Y(t, v) == [t |-> t, v |-> v]

\* the empty dict
EmptyDict == [k \in {} |-> YNull]

\* Python's str(value)
str(value) == Y("str", value.v)

\* the sections load_config looks for, in its order
SECTIONS == << "download_settings", "quality_settings", "playlist_settings",
               "network_settings", "logging_settings" >>

\* section, key of the file, field of AppConfig and its default, for every
\* ".get(key, default)" of load_config; the defaults are those of AppConfig
SETTINGS ==
    { [section |-> "download_settings", key |-> "download_directory",
       field |-> "download_directory", default |-> Y("str", "Downloads")],
      [section |-> "download_settings", key |-> "max_concurrent_downloads",
       field |-> "max_concurrent_downloads", default |-> Y("int", "3")],
      [section |-> "download_settings", key |-> "max_file_size_mb",
       field |-> "max_file_size_mb", default |-> Y("int", "500")],
      [section |-> "download_settings", key |-> "write_subtitles",
       field |-> "write_subtitles", default |-> Y("bool", "True")],
      [section |-> "download_settings", key |-> "write_auto_subtitles",
       field |-> "write_auto_subtitles", default |-> Y("bool", "False")],
      [section |-> "quality_settings", key |-> "max_video_height",
       field |-> "max_video_height", default |-> Y("int", "1080")],
      [section |-> "quality_settings", key |-> "audio_quality",
       field |-> "audio_quality", default |-> Y("str", "192")],
      [section |-> "quality_settings", key |-> "preferred_video_codec",
       field |-> "preferred_video_codec", default |-> Y("str", "h264")],
      [section |-> "quality_settings", key |-> "preferred_audio_codec",
       field |-> "preferred_audio_codec", default |-> Y("str", "aac")],
      [section |-> "playlist_settings", key |-> "max_playlist_items",
       field |-> "max_playlist_items", default |-> Y("int", "100")],
      [section |-> "playlist_settings", key |-> "create_playlist_folders",
       field |-> "create_playlist_folders", default |-> Y("bool", "True")],
      [section |-> "playlist_settings", key |-> "download_playlists_by_default",
       field |-> "download_playlists_by_default", default |-> Y("bool", "False")],
      [section |-> "network_settings", key |-> "socket_timeout",
       field |-> "socket_timeout", default |-> Y("int", "30")],
      [section |-> "network_settings", key |-> "http_chunk_size",
       field |-> "http_chunk_size", default |-> Y("int", "10485760")],
      [section |-> "network_settings", key |-> "retries",
       field |-> "retries", default |-> Y("int", "5")],
      [section |-> "network_settings", key |-> "prefer_ipv6",
       field |-> "prefer_ipv6", default |-> Y("bool", "False")],
      [section |-> "logging_settings", key |-> "level",
       field |-> "log_level", default |-> Y("str", "INFO")],
      [section |-> "logging_settings", key |-> "max_log_file_size",
       field |-> "max_log_file_size", default |-> Y("int", "10")],
      [section |-> "logging_settings", key |-> "backup_count",
       field |-> "backup_count", default |-> Y("int", "5")],
      [section |-> "logging_settings", key |-> "console_output",
       field |-> "console_output", default |-> Y("bool", "True")] }

\* the fields of the dataclass AppConfig
Fields == {row.field : row \in SETTINGS}

\* AppConfig(**config_dict): the fields config_dict names, the defaults of
\* the dataclass for the others
AppConfig(config_dict) ==
    [f \in Fields |->
        IF f \in DOMAIN config_dict THEN config_dict[f]
        ELSE (CHOOSE row \in SETTINGS : row.field = f).default]

\* "not config_data"
Falsy(value) ==
    \/ value.t = "null"
    \/ value.t = "map" /\ DOMAIN value.v = {}
    \/ value.t = "list" /\ value.v = <<>>
    \/ value.t = "str" /\ value.v = ""
    \/ value.t = "int" /\ value.v = "0"
    \/ value.t = "bool" /\ value.v = "False"

\* "section in config_data" where it does not raise
In(section, data) ==
    IF data.t = "map" THEN section \in DOMAIN data.v
    ELSE IF data.t = "str" THEN Contains(data.v, section)
    ELSE \E i \in 1..Len(data.v) : data.v[i] = Y("str", section)

\* ds.get(key, default), with the str() load_config puts around audio_quality
Setting(row, ds) ==
    LET value == IF row.key \in DOMAIN ds THEN ds[row.key] ELSE row.default
    IN  IF row.field = "audio_quality" THEN str(value) ELSE value

\* config_dict.update({...}) of one section
Update(config_dict, section, ds) ==
    LET rows == {row \in SETTINGS : row.section = section}
    IN  [f \in DOMAIN config_dict \cup {row.field : row \in rows} |->
            IF \E row \in rows : row.field = f
            THEN Setting(CHOOSE row \in rows : row.field = f, ds)
            ELSE config_dict[f]]

RECURSIVE Merge(_, _, _)
\* the five "if section in config_data" blocks from the k-th on: the dict
\* they build, or the exception one of them raises
Merge(data, k, config_dict) ==
    IF k > Len(SECTIONS) THEN [dict |-> config_dict]
    ELSE IF data.t \in {"int", "bool"} THEN [exc |-> "TypeError"]
    ELSE IF ~In(SECTIONS[k], data) THEN Merge(data, k + 1, config_dict)
    ELSE IF data.t # "map" THEN [exc |-> "TypeError"]
    ELSE LET ds == data.v[SECTIONS[k]]
         IN  IF ds.t # "map" THEN [exc |-> "AttributeError"]
             ELSE Merge(data, k + 1, Update(config_dict, SECTIONS[k], ds.v))

\* load_config without its try: what the body returns or raises
load_config_unguarded(file, yaml_ok) ==
    IF ~file.exists \/ ~yaml_ok THEN AppConfig(EmptyDict)
    ELSE IF ~file.loads THEN [exc |-> "YAMLError"]
    ELSE IF Falsy(file.data) THEN AppConfig(EmptyDict)
    ELSE LET merged == Merge(file.data, 1, EmptyDict)
         IN  IF "exc" \in DOMAIN merged THEN merged
             ELSE AppConfig(merged.dict)

load_config(file, yaml_ok) ==
    IF ~file.exists \/ ~yaml_ok THEN AppConfig(EmptyDict)
    ELSE IF ~file.loads THEN AppConfig(EmptyDict)
    ELSE IF Falsy(file.data) THEN AppConfig(EmptyDict)
    ELSE LET merged == Merge(file.data, 1, EmptyDict)
         IN  IF "exc" \in DOMAIN merged THEN AppConfig(EmptyDict)
             ELSE AppConfig(merged.dict)

(***************************************************************************)
(* load_config applied to every settings file of a bounded set.            *)
(***************************************************************************)
\* keys a settings file gives a value to, at most
MaxConfigKeys == 2

\* the value a file gives to a key: one that is not the default
FileValue(row) ==
    IF row.default.t = "int" THEN Y("int", "7")
    ELSE IF row.default.t = "bool"
    THEN Y("bool", IF row.default.v = "True" THEN "False" ELSE "True")
    ELSE Y("str", "custom")

\* what a file can give to audio_quality: a number, a string, nothing
AudioQualities == {Y("int", "320"), Y("str", "320"), YNull}

\* what a section that is not a mapping of settings can hold
OddSections == {YNull, Y("int", "5"), Y("list", <<Y("str", "retries")>>), Y("map", EmptyDict)}

\* documents that are not a mapping of sections
OddDocuments ==
    {YNull, Y("int", "5"), Y("int", "0"), Y("str", "text"), Y("str", "download_settings"),
     Y("list", <<>>), Y("list", <<Y("str", "logging_settings")>>), Y("map", EmptyDict)}

\* the mapping of a section from the rows of the file in it
SectionOf(rows, section, aq) ==
    LET mine == {row \in rows : row.section = section}
    IN  Y("map", [key \in {row.key : row \in mine} |->
                 IF key = "audio_quality" THEN aq
                 ELSE FileValue(CHOOSE row \in mine : row.key = key)])

\* the document of the rows and of the sections that odds gives a content to
Document(rows, aq, odds) ==
    LET sections == {row.section : row \in rows}
    IN  Y("map", [section \in sections \cup DOMAIN odds |->
                 IF section \in sections THEN SectionOf(rows, section, aq)
                 ELSE odds[section]])

\* no odd section, or one of those the rows leave out
OddsFor(rows) ==
    LET names == {SECTIONS[k] : k \in 1..Len(SECTIONS)} \ {row.section : row \in rows}
    IN  {EmptyDict} \cup {[section \in {name} |-> odd] : name \in names, odd \in OddSections}

Documents ==
    LET keysets == {rows \in SUBSET SETTINGS : Cardinality(rows) <= MaxConfigKeys}
    IN  OddDocuments
        \cup UNION { { Document(rows, aq, odds) :
                          aq \in IF \E row \in rows : row.key = "audio_quality"
                                 THEN AudioQualities ELSE {Y("str", "320")},
                          odds \in OddsFor(rows) } :
                     rows \in keysets }

ConfigFiles ==
    {[exists |-> FALSE], [exists |-> TRUE, loads |-> FALSE]}
    \cup {[exists |-> TRUE, loads |-> TRUE, data |-> d] : d \in Documents}

InitConfig ==
    /\ pc = "load_config"
    /\ config_file \in ConfigFiles
    /\ yaml \in BOOLEAN
    /\ directory = {}
    /\ call = Null
    /\ case_sensitive = TRUE
    /\ PureIdle
    /\ DlIdle

\* load_config("config.yaml")
LoadConfig ==
    /\ pc = "load_config"
    /\ ret' = load_config(config_file, yaml)
    /\ pc' = "loaded"
    /\ UNCHANGED <<url, filename, max_length, ret2>>
    /\ UNCHANGED dlVars
    /\ UNCHANGED envVars

SpecConfig == InitConfig /\ [][LoadConfig]_vars


\* the settings file exists, parses, and is a mapping of sections that are
\* mappings
C15_WellFormed ==
    /\ config_file.exists
    /\ config_file.loads
    /\ config_file.data.t = "map"
    /\ \A section \in DOMAIN config_file.data.v : config_file.data.v[section].t = "map"

\* the file gives a value to the key of the row
C15_Present(row) ==
    /\ row.section \in DOMAIN config_file.data.v
    /\ row.key \in DOMAIN config_file.data.v[row.section].v

\* the value the file gives to the key of the row
C15_Value(row) == config_file.data.v[row.section].v[row.key]

\* load_config returned an AppConfig
C15_Returned == pc = "loaded" /\ DOMAIN ret = {row.field : row \in SETTINGS}

\* C15 as claimed: load_config returns an AppConfig; every field has its
\* default when the file is absent, empty or malformed; when the file is
\* well formed the field of a key the file has holds the file's value and
\* every other field its default
C15_DefaultsOrFileValues ==
    pc = "loaded" =>
       /\ C15_Returned
       /\ \A row \in SETTINGS :
             ret[row.field] = IF C15_WellFormed /\ C15_Present(row)
                              THEN C15_Value(row) ELSE row.default

\* C15 amended: load_config returns an AppConfig; every field has its
\* default when the file is absent, empty or malformed, or when PyYAML is
\* not installed; otherwise the field of a key the file has holds the
\* file's value, as a string (str of the value) for audio_quality, and
\* every other field its default
C15_DefaultsOrReadValues ==
    pc = "loaded" =>
       /\ C15_Returned
       /\ \A row \in SETTINGS :
             ret[row.field] =
                IF yaml /\ C15_WellFormed /\ C15_Present(row)
                THEN IF row.field = "audio_quality"
                     THEN [t |-> "str", v |-> C15_Value(row).v]
                     ELSE C15_Value(row)
                ELSE row.default

\* a file that sets the level of logging and the retries: the two fields
\* hold the file's values and the others their defaults
C15_Witness ==
    /\ C15_Returned
    /\ yaml
    /\ C15_WellFormed
    /\ DOMAIN config_file.data.v = {"logging_settings", "network_settings"}
    /\ ret.log_level = [t |-> "str", v |-> "custom"]
    /\ ret.retries = [t |-> "int", v |-> "7"]
    /\ ret.socket_timeout = [t |-> "int", v |-> "30"]

\* a file with a section that is not a mapping beside a section that sets
\* a key: every field has its default
C15_MalformedWitness ==
    /\ C15_Returned
    /\ yaml
    /\ config_file.exists /\ config_file.loads /\ config_file.data.t = "map"
    /\ ~C15_WellFormed
    /\ \E row \in SETTINGS :
          /\ row.section \in DOMAIN config_file.data.v
          /\ config_file.data.v[row.section].t = "map"
          /\ row.key \in DOMAIN config_file.data.v[row.section].v
          /\ ret[row.field] = row.default


(***************************************************************************)
(* _find_downloaded_file: the search under the download directory.         *)
(***************************************************************************)
RECURSIVE LastDot(_, _)
\* the position of the last "." among the first i characters of s, 0 for none
LastDot(s, i) ==
    IF i = 0 THEN 0
    ELSE IF Ch(s, i) = "." THEN i ELSE LastDot(s, i - 1)

\* Path.suffix: the name from its last dot on, none for a dot that leads it
suffix(name) ==
    LET i == LastDot(name, Len(name))
    IN  IF i <= 1 THEN "" ELSE SubSeq(name, i, Len(name))

\* the name ends with the text
EndsWith(name, text) ==
    /\ Len(text) <= Len(name)
    /\ SubSeq(name, Len(name) - Len(text) + 1, Len(name)) = text

\* the test of the two candidate loops
IsCandidate(file_path, pattern, ext) ==
    /\ file_path.is_file
    /\ Contains(lower(file_path.name), lower(pattern))
    /\ lower(suffix(file_path.name)) = "." \o lower(ext)

\* dir.iterdir(): the entries whose parent is dir ("" is self.download_dir)
iterdir(entries, dir) == {file_path \in entries : file_path.parent = dir}

RECURSIVE SearchPatterns(_, _, _, _)
\* "for pattern in search_patterns: if pattern: for file_path in ...": the
\* files the loops can return, in whatever order iterdir lists them; none
\* when no pattern finds a file
SearchPatterns(listing, search_patterns, k, ext) ==
    IF k > Len(search_patterns) THEN {}
    ELSE LET found == IF search_patterns[k] = "" THEN {}
                      ELSE {file_path \in listing :
                               IsCandidate(file_path, search_patterns[k], ext)}
         IN  IF found # {} THEN found
             ELSE SearchPatterns(listing, search_patterns, k + 1, ext)

\* self.download_dir.rglob(f"*.{ext}"): the names are matched with the case
\* rules of the platform
rglob(entries, ext, with_case) ==
    {file_path \in entries :
        IF with_case THEN EndsWith(file_path.name, "." \o ext)
        ELSE EndsWith(lower(file_path.name), lower("." \o ext))}

\* seconds of "time.time() - st_mtime" below which a file counts as new
RECENT == 120

\* the newest of the files when it is recent: recent_files sorted in
\* reverse, the first taken; files of one st_mtime are not told apart
Newest(files) ==
    LET recent_files == {file_path \in files : file_path.is_file}
        first == {file_path \in recent_files :
                     \A other \in recent_files : file_path.age <= other.age}
    IN  IF recent_files = {} THEN {Null}
        ELSE {IF file_path.age < RECENT THEN file_path ELSE Null : file_path \in first}

\* the files _find_downloaded_file can return, Null for None
_find_downloaded_file(entries, args, with_case) ==
    LET search_patterns == <<args.clean_title, args.video_id, args.uploader>>
        playlist_dir == sanitize_filename(args.playlist_title, DEFAULT_MAX_LENGTH)
        in_playlist_dir ==
            IF args.in_playlist /\ args.playlist_title # ""
            THEN SearchPatterns(iterdir(entries, playlist_dir), search_patterns, 1, args.ext)
            ELSE {}
        in_download_dir ==
            SearchPatterns(iterdir(entries, ""), search_patterns, 1, args.ext)
    IN  IF in_playlist_dir # {} THEN in_playlist_dir
        ELSE IF in_download_dir # {} THEN in_download_dir
        ELSE Newest(rglob(entries, args.ext, with_case))

(***************************************************************************)
(* The search applied to every directory of a bounded set.                 *)
(***************************************************************************)
\* entries under the download directory, at most
MaxFiles == 2

\* files, and a folder that has the name of a file; the parent is the
\* download directory itself or the folder of the playlist, the age the
\* seconds since st_mtime
Entries ==
    [name : {"Clip - vid1.mp4", "clip - VID1.MP4", "vid1.mp4", "Chan.mp4",
             "Part.mp4", "Clip - vid1.webm"},
     parent : {"", "Mix"},
     age : {60, 100, 120},
     is_file : {TRUE}]
    \cup {[name |-> "Clip - vid1.mp4", parent |-> "", age |-> 60, is_file |-> FALSE]}

RECURSIVE EntrySets(_)
\* the sets of at most n entries, no two of one name in one folder
EntrySets(n) ==
    IF n = 0 THEN {{}}
    ELSE LET smaller == EntrySets(n - 1)
         IN  smaller \cup
             UNION { { entries \cup {entry} :
                          entry \in {e \in Entries :
                                        \A a \in entries :
                                           a.name # e.name \/ a.parent # e.parent} } :
                     entries \in smaller }

\* the calls of _download_single_video and of _download_playlist
Calls ==
    [clean_title : {"Clip - vid1"}, ext : {"mp4", "webm"}, in_playlist : {FALSE},
     playlist_title : {""}, video_id : {"vid1"}, uploader : {"Chan", ""}]
    \cup [clean_title : {"Part"}, ext : {"mp4", "webm"}, in_playlist : {TRUE},
          playlist_title : {"Mix"}, video_id : {""}, uploader : {""}]

InitFind ==
    /\ pc = "find"
    /\ directory \in EntrySets(MaxFiles)
    /\ call \in Calls
    /\ case_sensitive \in BOOLEAN
    /\ config_file = Null
    /\ yaml = TRUE
    /\ PureIdle
    /\ DlIdle

\* self._find_downloaded_file(...)
Find ==
    /\ pc = "find"
    /\ ret' \in _find_downloaded_file(directory, call, case_sensitive)
    /\ pc' = "found"
    /\ UNCHANGED <<url, filename, max_length, ret2>>
    /\ UNCHANGED dlVars
    /\ UNCHANGED envVars

SpecFind == InitFind /\ [][Find]_vars


\* the file is one of the expected extension, whatever the letter case
C20_HasExtension(file_path) ==
    /\ file_path.is_file
    /\ lower(suffix(file_path.name)) = "." \o lower(call.ext)

\* the files of the folder that are candidates by the k-th of the fragments
\* title, id, uploader
C20_Candidates(folder, k) ==
    LET fragment == <<call.clean_title, call.video_id, call.uploader>>[k]
    IN  {file_path \in directory :
            /\ file_path.parent = folder
            /\ fragment # ""
            /\ Contains(lower(file_path.name), lower(fragment))
            /\ C20_HasExtension(file_path)}

\* the candidate sets in the order of their priority: for a playlist entry
\* those of the folder of the playlist, then those of the download directory
C20_Priority ==
    (IF call.in_playlist /\ call.playlist_title # ""
     THEN [k \in 1..3 |-> C20_Candidates(call.playlist_title, k)] ELSE <<>>)
    \o [k \in 1..3 |-> C20_Candidates("", k)]

RECURSIVE C20_First(_, _)
\* the first candidate set from the s-th on that is not empty, {} for none
C20_First(priority, s) ==
    IF s > Len(priority) THEN {}
    ELSE IF priority[s] # {} THEN priority[s]
    ELSE C20_First(priority, s + 1)

\* the result is a file of the expected extension; it is one of the first
\* candidate set that is not empty; with no candidate at all it is the
\* newest of the files when that one is younger than two minutes, and no
\* file otherwise
C20_Chosen(files) ==
    LET first == C20_First(C20_Priority, 1)
    IN  /\ ret # Null => (ret \in directory /\ C20_HasExtension(ret))
        /\ IF first # {} THEN ret \in first
           ELSE IF \E file_path \in files : file_path.age < 120
           THEN /\ ret \in files
                /\ \A other \in files : ret.age <= other.age
           ELSE ret = Null

\* C20: the result has the expected extension (compared as the candidate
\* test compares it, without letter case) and is chosen by the priority
\* title, id, uploader; only with no candidate is it the newest file of the
\* expected extension, if younger than two minutes, else none
C20_PriorityThenNewest ==
    pc = "found" =>
       C20_Chosen({file_path \in directory : C20_HasExtension(file_path)})

\* what holds of the search on either platform: the extension of the result
\* equals the expected one up to letter case; with no candidate the result
\* is the newest of the files the platform's matching of "*.ext" gives,
\* which on a platform that matches with letter case are the files whose
\* name ends in the extension exactly as expected
C20_PriorityThenNewestMatched ==
    pc = "found" =>
       C20_Chosen({file_path \in directory :
                     /\ C20_HasExtension(file_path)
                     /\ case_sensitive => EndsWith(file_path.name, "." \o call.ext)})

\* no candidate, two files of the extension: the newer one is returned
C20_Witness ==
    /\ pc = "found"
    /\ ret # Null
    /\ ret.age = 60
    /\ C20_First(C20_Priority, 1) = {}
    /\ \E other \in directory : other.age = 100 /\ C20_HasExtension(other)

\* a file with the id alone and one with the title: the one with the title
C20_PriorityWitness ==
    /\ pc = "found"
    /\ Cardinality(directory) = 2
    /\ \E other \in directory : other.name = "vid1.mp4" /\ other.parent = ""
    /\ ret # Null
    /\ ret.name = "Clip - vid1.mp4"


(***************************************************************************)
(* C21: the fallback configuration and the classified source.              *)
(***************************************************************************)
\* the fallback configuration the source stands for, made from the options
\* of the first probe
C21_FallbackFor(source, opts) ==
    CASE source = VideoSource.FACEBOOK ->
            [opts EXCEPT !.format = "best[height<=720]/worst",
                         !.extractor_args = "facebook",
                         !.http_headers = "User-Agent(iPhone),Accept-Language,Accept,DNT,Referer"]
      [] source = VideoSource.SOUNDCLOUD ->
            [opts EXCEPT !.format = "best",
                         !.extractor_args = "soundcloud(use_oauth=False)"]
      [] source = VideoSource.YOUTUBE ->
            [opts EXCEPT !.format = "best[height<=720]/best[height<=480]/worst",
                         !.extractor_args = "youtube(android_creator,android)"]
      [] OTHER ->
            [opts EXCEPT !.format = "best[height<=720]/worst",
                         !.ignoreerrors = TRUE]

\* C21: when the handler of the probe starts the fallback, the fallback
\* configuration is the one of the source the URL of the request is
\* classified as: Facebook, SoundCloud, YouTube, and the generic one for
\* every other source
C21_FallbackAgreesWithSource ==
    [][(pc = "probe" /\ pc' = "fallback_probe") =>
          ydl_opts_fallback' = C21_FallbackFor(get_video_source(config.url), ydl_opts)]_vars


(***************************************************************************)
(* C22: the sanitizer applied twice.                                       *)
(***************************************************************************)
\* C22: sanitizing the result of sanitize_filename again, with the same
\* max_length, gives that result, and the result ends neither with a dot
\* nor with whitespace
C22_IdempotentAndTrimmed ==
    pc = "sanitized_twice" =>
       /\ ret2 = ret
       /\ ret # ""
       /\ Ch(ret, Len(ret)) # "."
       /\ ~IsSpace(Ch(ret, Len(ret)))


(***************************************************************************)
(* The source main announces and the source of the URL after the fixup.    *)
(***************************************************************************)
\* what follows the host in the URLs typed at the prompt of main
TypedUrls ==
    {sc \o h \o q : sc \in Schemes, h \in Hosts,
                    q \in {"", "/video/42", "/reel/1234567890123456", "/Share/AbC",
                           "/redirect?q=https://www.facebook.com/reel/1234567890123456",
                           "/watch?v=abc&feature=fb.watch"}}

InitAnnounce ==
    /\ pc = "input"
    /\ url \in TypedUrls
    /\ filename = None
    /\ max_length = 0
    /\ ret = None
    /\ ret2 = None
    /\ DlIdle
    /\ EnvIdle

\* main: "source = VideoDownloader.get_video_source(url)", printed
Announce ==
    /\ pc = "input"
    /\ ret' = get_video_source(url)
    /\ pc' = "announced"
    /\ UNCHANGED <<url, filename, max_length, ret2>>
    /\ UNCHANGED dlVars
    /\ UNCHANGED envVars

\* download_video fixes config.url, and log_download writes the source of
\* config.url to the row
JournalSource ==
    /\ pc = "announced"
    /\ url' = fixup(url)
    /\ ret2' = get_video_source(fixup(url))
    /\ pc' = "journaled"
    /\ UNCHANGED <<filename, max_length, ret>>
    /\ UNCHANGED dlVars
    /\ UNCHANGED envVars

NextAnnounce == Announce \/ JournalSource

SpecAnnounce == InitAnnounce /\ [][NextAnnounce]_vars

\* C23: the source of the URL after the fixup of download_video, which the
\* journal row gets, is the source of the URL as typed, which main announced
C23_SourceKeptByFixup ==
    pc = "journaled" => ret2 = ret


(***************************************************************************)
(* C24: the playlist flag and the path download_video takes.               *)
(***************************************************************************)
\* a request without the playlist flag makes at most one download call and
\* leaves at most one journal row
C24_OneCallOneRow ==
    (config # Null /\ ~config.download_playlist) =>
        /\ Len(downloads) <= 1
        /\ Len(journal) - start_len <= 1

\* C24 as claimed: the loop of _download_playlist is entered exactly for the
\* requests with the playlist flag, _download_single_video exactly for
\* those without, and a request without the flag makes at most one download
\* call and leaves at most one journal row
C24_PlaylistIffFlag ==
    /\ pc = "playlist" => config.download_playlist
    /\ pc = "single" => ~config.download_playlist
    /\ C24_OneCallOneRow

\* C24 amended: the path is taken by the metadata of the probe, the loop of
\* _download_playlist exactly when it carries a non-empty 'entries' list,
\* whatever the flag; a request without the flag, which main gives a
\* max_downloads of 1, still makes at most one download call and leaves at
\* most one journal row
C24_PlaylistIffEntries ==
    /\ pc = "playlist" => ("entries" \in DOMAIN info_dict /\ info_dict.entries # <<>>)
    /\ pc = "single" => (info_dict # Null /\ "entries" \notin DOMAIN info_dict)
    /\ C24_OneCallOneRow

\* a request without the flag whose probe returned two entries: the loop
\* ran, over the first entry alone
C24_Witness ==
    /\ pc = "done"
    /\ ~config.download_playlist
    /\ outcome = "playlist"
    /\ Len(info_dict.entries) = 2
    /\ Len(downloads) = 1
    /\ Len(journal) - start_len = 1


(***************************************************************************)
(* C25: the playlist position of the rows of a playlist.                   *)
(***************************************************************************)
\* the row the step appends is a success row whose position column holds
\* p, the 1-based position in the probe's entry list of the entry the step
\* downloaded (null entries counted), and p is above the positions of the
\* rows the run wrote before
C25_RowOfPosition(p) ==
    LET row == journal'[Len(journal')]
    IN  /\ row[12] = ToString(p)
        /\ row[18] = STATUS_OK
        /\ info_dict.entries[p] # Null
        /\ downloads'[Len(downloads')].target = info_dict.entries[p].webpage_url
        /\ \A k \in (start_len + 1)..Len(journal) :
              \E q \in 1..(p - 1) : journal[k][12] = ToString(q)

\* C25: every row journaled for a playlist entry records the 1-based
\* position of the entry in the entry list the probe returned, the positions
\* of the rows of one run are strictly increasing, and each is at most
\* min(number of entries, max_downloads)
C25_PositionInProbeList ==
    [][(pc = "playlist" /\ Len(journal') > Len(journal)) =>
          \E p \in 1..Len(info_dict.entries) :
             /\ C25_RowOfPosition(p)
             /\ p <= Min(Len(info_dict.entries), config.max_downloads)]_vars

\* what holds for a max_downloads that is a count: the same, a negative
\* max_downloads set aside
C25_PositionForCounts ==
    [][(pc = "playlist" /\ Len(journal') > Len(journal) /\ config.max_downloads >= 0) =>
          \E p \in 1..Len(info_dict.entries) :
             /\ C25_RowOfPosition(p)
             /\ p <= Min(Len(info_dict.entries), config.max_downloads)]_vars

\* whatever max_downloads is, the row holds the position of its entry
C25_PositionOfEntry ==
    [][(pc = "playlist" /\ Len(journal') > Len(journal)) =>
          \E p \in 1..Len(info_dict.entries) : C25_RowOfPosition(p)]_vars

\* a null entry first, then an entry whose row holds the position 2
C25_Witness ==
    /\ pc = "done"
    /\ outcome = "playlist"
    /\ info_dict.entries[1] = Null
    /\ Len(journal) = start_len + 1
    /\ journal[Len(journal)][12] = "2"

=============================================================================
